---- MODULE Spec2Model ----
(***************************************************************************)
(* Event lifecycle of termometer-bot: the event store (db/base_event.py),  *)
(* the moderation, resubmission and attendee handlers                      *)
(* (handlers/events/details.py, handlers/events/edit.py) and the submit    *)
(* step of the creation wizard (handlers/events/creation.py).              *)
(*                                                                         *)
(* Handlers run on one asyncio event loop and the store is reached through *)
(* synchronous calls, so the code between two network awaits is one atomic *)
(* step.  A handler that goes on after an await (moderation notice         *)
(* refresh, creator message, admin broadcast) is kept in tasks and         *)
(* resumed step by step, interleaved with every other handler.             *)
(***************************************************************************)
EXTENDS Integers, Sequences, FiniteSets, TLC

\* ---------------------------------------------------------------- bounds
MaxEvents == 1
MaxClock == 2
MaxTasks == 1
MaxMessages == 2

\* ------------------------------------------------------------- constants
Users == {1, 2, 3}
ADMIN_IDS == {1}
ADMIN_ORDER == <<1>>
TAG_ORDER == <<"bachelor", "master", "postgraduate">>

STATUS_PENDING == "pending"
STATUS_APPROVED == "approved"
STATUS_REJECTED == "rejected"

\* Python None: 0 for ids and timestamps (both start at 1), "None" for text.
NoneId == 0
NoneTime == 0
NoneText == "None"
NOTE_REJECTED == "rejected by administrator"
NOTE_RESUBMITTED == "sent for repeated moderation"

EventIds == 1..MaxEvents

\* callback.from_user of each chat user (full_name, username; "" is no username)
full_name(u) == IF u = 1 THEN "Admin" ELSE IF u = 2 THEN "Bob" ELSE ""
username(u) == IF u = 1 THEN "admin" ELSE IF u = 2 THEN "" ELSE "carol"

Or(a, b, empty) == IF a # empty THEN a ELSE b

build_contact_info(u) ==
    [name |-> Or(full_name(u), Or(username(u), "Contact", ""), ""),
     url |-> IF username(u) # "" THEN "https://t.me/" \o username(u) ELSE "tg://user"]

\* --------------------------------------------------------- EventRecord
\* datetime values are <<date, hour>>; the empty string of a time field is <<>>.
NoTime == <<>>

from_dict(data) ==
    LET starts == Or(data.starts_at, data.scheduled_at, NoTime)
        derived == IF data.contact = "" /\ data.contact_name # "" /\ data.contact_url # ""
                   THEN data.contact_name \o " (" \o data.contact_url \o ")"
                   ELSE data.contact
    IN  [data EXCEPT
            !.tags = data.tags,
            !.moderation_messages =
                SelectSeq(data.moderation_messages,
                          LAMBDA m : m.chat_id \in Int /\ m.message_id \in Int),
            !.starts_at = starts,
            !.contact = derived]

to_dict(rec) ==
    [rec EXCEPT !.scheduled_at = Or(rec.starts_at, rec.scheduled_at, NoTime)]

\* ------------------------------------------------------ EventsRepository
\* mutant: the clock is read again for updated_at
_prepare_payload_second_read(data, is_new, now) ==
    LET withCreated == IF is_new /\ data.created_at = NoneTime
                       THEN [data EXCEPT !.created_at = now] ELSE data
        sched == IF withCreated.scheduled_at = NoTime
                 THEN withCreated.starts_at ELSE withCreated.scheduled_at
    IN  [withCreated EXCEPT
            !.updated_at = now + 1,
            !.tags = SelectSeq(withCreated.tags, LAMBDA t : t \in STRING),
            !.attendees = SelectSeq(withCreated.attendees, LAMBDA a : a \in Int),
            !.scheduled_at = sched]

\* a store that stamps created_at on every write
_prepare_payload_restamps(data, is_new, now) ==
    [_prepare_payload_second_read(data, is_new, now) EXCEPT !.created_at = now, !.updated_at = now]

\* created_at = NoneTime stands for a payload without the key.
_prepare_payload(data, is_new, now) ==
    LET withCreated == IF is_new /\ data.created_at = NoneTime
                       THEN [data EXCEPT !.created_at = now] ELSE data
        sched == IF withCreated.scheduled_at = NoTime
                 THEN withCreated.starts_at ELSE withCreated.scheduled_at
    IN  [withCreated EXCEPT
            !.updated_at = now,
            !.tags = SelectSeq(withCreated.tags, LAMBDA t : t \in STRING),
            !.attendees = SelectSeq(withCreated.attendees, LAMBDA a : a \in Int),
            !.scheduled_at = sched]

\* A payload with every key of the document; a key the caller leaves out has
\* the value EventRecord.from_dict reads for a missing key.
BlankDoc ==
    [id |-> NoneId, title |-> "", starts_at |-> NoTime, ends_at |-> NoTime,
     location |-> "", short_description |-> "", contact |-> "",
     contact_name |-> "", contact_url |-> "", registration_link |-> "",
     attendees |-> <<>>, tags |-> <<>>, status |-> STATUS_PENDING,
     created_by |-> NoneId, creator_name |-> "", creator_username |-> "",
     created_at |-> NoneTime, updated_at |-> NoneTime,
     approved_by |-> NoneId, approved_at |-> NoneTime,
     moderator_note |-> NoneText, moderation_messages |-> <<>>,
     scheduled_at |-> NoTime]

Merge(cur, upd) ==
    [k \in DOMAIN cur |-> IF k \in DOMAIN upd THEN upd[k] ELSE cur[k]]

\* the document insert leaves in the table: id is the next BIGSERIAL value
insert(table, payload, now) ==
    [_prepare_payload(Merge(BlankDoc, payload), TRUE, now) EXCEPT !.id = Len(table) + 1]

\* get: the row's document read through from_dict (callers test the id first)
get(table, event_id) == from_dict(table[event_id])

\* the document update leaves in the table
update(table, event_id, updates, now) ==
    _prepare_payload(Merge(to_dict(get(table, event_id)), updates), FALSE, now)

VARIABLES store, clock, session, tasks, nextMessageId, last

vars == <<store, clock, session, tasks, nextMessageId, last>>

\* ------------------------------------------------------------- sessions
\* FSM state and data of one user's creation wizard (aiogram MemoryStorage).
BlankData ==
    [title |-> "", event_date |-> 0, start_time |-> 0, end_time |-> 0,
     location |-> "", short_description |-> "", tags |-> <<>>,
     contact_name |-> "", contact_url |-> "", registration_link |-> ""]

NoSession == [state |-> "none", data |-> BlankData]

\* tag selections the wizard can hold at the confirmation step
DraftTags == {TAG_ORDER, <<"master">>}

\* A session that has reached the confirmation step: every field was accepted
\* by its step (end time after start time), contact fields are _set_defaults'.
ConfirmSessions(u) ==
    {[state |-> "confirm",
      data |-> [title |-> "Talk", event_date |-> 10, start_time |-> 18,
                end_time |-> 20, location |-> "Room 1",
                short_description |-> "About", tags |-> tg,
                contact_name |-> build_contact_info(u).name,
                contact_url |-> build_contact_info(u).url,
                registration_link |-> ""]] : tg \in DraftTags}

\* ---------------------------------------------------------------- tasks
\* A handler suspended at an await: h is the handler, pc the call it resumes
\* in, todo the moderation notices still to refresh, admins the administrators
\* still to notify, messages the notices sent so far.
Idle ==
    [h |-> "idle", pc |-> "idle", user |-> NoneId, event |-> NoneId,
     todo |-> <<>>, admins |-> <<>>, messages |-> <<>>, creator |-> NoneId]

Slots == 1..MaxTasks
FreeSlots == {i \in DOMAIN tasks : tasks[i].h = "idle"}
FreeSlot == CHOOSE i \in FreeSlots : \A j \in FreeSlots : i <= j

\* What the last handler step did, kept for the properties: the handler, the
\* acting user, the event id it named, its answer or progress, the chat a
\* message was delivered to (0: none) and the event's document before the step
\* (BlankDoc when the id is not in the table).
Before(e) == IF e \in DOMAIN store THEN store[e] ELSE BlankDoc

Outcome(h, u, e, out, to) ==
    [h |-> h, user |-> u, event |-> e, out |-> out, to |-> to, before |-> Before(e)]

\* mutant: every user may manage every event
can_manage_anyone(user_id, event) == TRUE

can_manage_event(user_id, event) == user_id \in ADMIN_IDS \/ user_id = event.created_by

\* mutant: the membership test never finds the user
is_user_registered_never(event, user_id) == FALSE

is_user_registered(event, user_id) == \E i \in DOMAIN event.attendees : event.attendees[i] = user_id

\* The table is empty and no handler is suspended.  The wizard steps before the
\* confirmation step are not part of this specification: a user either has no
\* session or has completed them and holds a session at the confirmation step.
Init ==
    /\ store = <<>>
    /\ clock = 1
    /\ session \in [Users -> UNION {ConfirmSessions(u) : u \in Users} \cup {NoSession}]
    /\ \A u \in Users : session[u] \in ConfirmSessions(u) \cup {NoSession}
    /\ Cardinality({u \in Users : session[u] # NoSession}) <= MaxEvents
    /\ tasks = [i \in Slots |-> Idle]
    /\ nextMessageId = 1
    /\ last = [h |-> "init", user |-> NoneId, event |-> NoneId, out |-> "", to |-> NoneId, before |-> BlankDoc]

\* wall clock: _utcnow_iso and datetime.now read it
Tick ==
    /\ clock < MaxClock
    /\ clock' = clock + 1
    /\ UNCHANGED <<store, session, tasks, nextMessageId, last>>

\* ---------------------------------------------------- creation wizard
\* the payload cb_creation_submit builds from the session data
creation_payload(u, data) ==
    [title |-> data.title,
     starts_at |-> <<data.event_date, data.start_time>>,
     ends_at |-> <<data.event_date, data.end_time>>,
     location |-> data.location,
     short_description |-> data.short_description,
     tags |-> data.tags,
     status |-> STATUS_PENDING,
     created_by |-> u,
     creator_name |-> full_name(u),
     creator_username |-> username(u),
     contact_name |-> data.contact_name,
     contact_url |-> data.contact_url,
     registration_link |-> data.registration_link]

\* mutant: the session outlives the submit
state_clear_keeps(s) == s

\* state.clear(): no state and no data
state_clear(s) == NoSession

cb_creation_submit(u) ==
    LET data == session[u].data
        payload == creation_payload(u, data)
        doc == insert(store, payload, clock)
    IN  /\ session[u].state = "confirm"
        /\ IF data.event_date = 0 \/ data.start_time = 0 \/ data.end_time = 0
           THEN /\ last' = Outcome("submit", u, NoneId, "no_data", NoneId)
                /\ UNCHANGED <<store, clock, session, tasks, nextMessageId>>
           ELSE /\ Len(store) < MaxEvents
                /\ FreeSlots # {}
                /\ store' = Append(store, doc)
                /\ session' = [session EXCEPT ![u] = state_clear(@)]
                /\ tasks' = [tasks EXCEPT ![FreeSlot] =
                        [Idle EXCEPT !.h = "submit", !.pc = "notify_admins",
                                     !.user = u, !.event = from_dict(doc).id,
                                     !.admins = ADMIN_ORDER]]
                /\ last' = Outcome("submit", u, from_dict(doc).id, "sent_to_moderation", NoneId)
                /\ UNCHANGED <<clock, nextMessageId>>

\* mutant: the write after the broadcast also stores a status
recorded_notices_and_status(messages) ==
    [moderation_messages |-> messages, status |-> STATUS_REJECTED]

\* the fields notify_admins passes to update after its sends
recorded_notices(messages) == [moderation_messages |-> messages]

\* notify_admins, one send_message per step; the store write that records the
\* notices follows the last send without an await in between.
notify_admins_step(i) ==
    LET t == tasks[i]
        admin == Head(t.admins)
        rest == Tail(t.admins)
    IN  /\ t.pc = "notify_admins"
        /\ \E ok \in BOOLEAN :
            LET messages == IF ok
                            THEN Append(t.messages,
                                        [chat_id |-> admin, message_id |-> nextMessageId])
                            ELSE t.messages
            IN  /\ ok => nextMessageId <= MaxMessages
                /\ nextMessageId' = IF ok THEN nextMessageId + 1 ELSE nextMessageId
                /\ IF rest # <<>>
                   THEN /\ tasks' = [tasks EXCEPT ![i].admins = rest, ![i].messages = messages]
                        /\ last' = Outcome(t.h, t.user, t.event, "notifying", IF ok THEN admin ELSE NoneId)
                        /\ UNCHANGED <<store, session>>
                   ELSE /\ store' = IF messages # <<>> /\ t.event \in DOMAIN store
                                    THEN [store EXCEPT ![t.event] =
                                            update(store, t.event,
                                                   recorded_notices(messages), clock)]
                                    ELSE store
                        /\ tasks' = [tasks EXCEPT ![i] = Idle]
                        /\ session' = IF t.h = "delete_confirm"
                                      THEN [session EXCEPT ![t.user] = NoSession]
                                      ELSE session
                        /\ last' = Outcome(t.h, t.user, t.event, "done", IF ok THEN admin ELSE NoneId)
        /\ UNCHANGED clock

\* ------------------------------------------------------------ moderation
\* get and update run without an await between them, so update finds the row
\* get found: the handlers' "if not updated" branches are not reachable.
\* mutant: approve does not clear the note
approve_updates_keeps_note(user_id, now) ==
    [status |-> STATUS_APPROVED, approved_by |-> user_id, approved_at |-> now]

\* mutant: approve names no approver
approve_updates_anonymous(user_id, now) ==
    [status |-> STATUS_APPROVED, approved_by |-> NoneId,
     approved_at |-> now, moderator_note |-> NoneText]

\* the fields cb_events_approve passes to update
approve_updates(user_id, now) ==
    [status |-> STATUS_APPROVED, approved_by |-> user_id,
     approved_at |-> now, moderator_note |-> NoneText]

\* mutant: reject stores no note
reject_updates_no_note(user_id, now) ==
    [status |-> STATUS_REJECTED, approved_by |-> user_id,
     approved_at |-> now, moderator_note |-> NoneText]

\* the fields cb_events_reject passes to update
reject_updates(user_id, now) ==
    [status |-> STATUS_REJECTED, approved_by |-> user_id,
     approved_at |-> now, moderator_note |-> NOTE_REJECTED]

\* update_moderation_messages skips an entry without chat_id or message_id
refreshable(event) ==
    SelectSeq(event.moderation_messages, LAMBDA m : m.chat_id # 0 /\ m.message_id # 0)

\* the rest of an approve or reject handler after its store write:
\* update_moderation_messages(updated), then notify_creator(updated, ...)
moderation_tail(h, u, updated) ==
    [Idle EXCEPT !.h = h,
                 !.pc = IF refreshable(updated) = <<>>
                        THEN "notify_creator" ELSE "update_moderation_messages",
                 !.user = u, !.event = updated.id,
                 !.todo = refreshable(updated), !.creator = updated.created_by]

\* mutant: the administrator test left out
approve_allowed_unchecked(user_id) == TRUE

approve_allowed(user_id) == user_id \in ADMIN_IDS

\* mutant: the already-approved guard left out
approve_noop_missing(event) == FALSE

approve_noop(event) == event.status = STATUS_APPROVED

cb_events_approve(u, e) ==
    /\ UNCHANGED <<clock, session, nextMessageId>>
    /\ IF ~approve_allowed(u)
       THEN /\ last' = Outcome("approve", u, e, "denied", NoneId)
            /\ UNCHANGED <<store, tasks>>
       ELSE IF e \notin DOMAIN store
       THEN /\ last' = Outcome("approve", u, e, "not_found", NoneId)
            /\ UNCHANGED <<store, tasks>>
       ELSE IF approve_noop(get(store, e))
       THEN /\ last' = Outcome("approve", u, e, "already_approved", NoneId)
            /\ UNCHANGED <<store, tasks>>
       ELSE LET doc == update(store, e, approve_updates(u, clock), clock)
            IN  /\ FreeSlots # {}
                /\ store' = [store EXCEPT ![e] = doc]
                /\ tasks' = [tasks EXCEPT ![FreeSlot] =
                                moderation_tail("approve", u, from_dict(doc))]
                /\ last' = Outcome("approve", u, e, "stored", NoneId)

reject_allowed(user_id) == user_id \in ADMIN_IDS

reject_noop(event) == event.status = STATUS_REJECTED

cb_events_reject(u, e) ==
    /\ UNCHANGED <<clock, session, nextMessageId>>
    /\ IF ~reject_allowed(u)
       THEN /\ last' = Outcome("reject", u, e, "denied", NoneId)
            /\ UNCHANGED <<store, tasks>>
       ELSE IF e \notin DOMAIN store
       THEN /\ last' = Outcome("reject", u, e, "not_found", NoneId)
            /\ UNCHANGED <<store, tasks>>
       ELSE IF reject_noop(get(store, e))
       THEN /\ last' = Outcome("reject", u, e, "already_rejected", NoneId)
            /\ UNCHANGED <<store, tasks>>
       ELSE LET doc == update(store, e, reject_updates(u, clock), clock)
            IN  /\ FreeSlots # {}
                /\ store' = [store EXCEPT ![e] = doc]
                /\ tasks' = [tasks EXCEPT ![FreeSlot] =
                                moderation_tail("reject", u, from_dict(doc))]
                /\ last' = Outcome("reject", u, e, "stored", NoneId)

\* update_moderation_messages, one edit_message_text per step.  Only
\* TelegramBadRequest is caught; any other transport error leaves the handler.
update_moderation_messages_step(i) ==
    LET t == tasks[i]
        rest == Tail(t.todo)
    IN  /\ t.pc = "update_moderation_messages"
        /\ \E result \in {"ok", "bad_request", "error"} :
            IF result = "error"
            THEN /\ tasks' = [tasks EXCEPT ![i] = Idle]
                 /\ last' = Outcome(t.h, t.user, t.event, "raised", NoneId)
            ELSE /\ tasks' = [tasks EXCEPT
                                ![i].todo = rest,
                                ![i].pc = IF rest = <<>> THEN "notify_creator" ELSE @]
                 /\ last' = Outcome(t.h, t.user, t.event, "refreshing",
                                    IF result = "ok" THEN Head(t.todo).chat_id ELSE NoneId)
        /\ UNCHANGED <<store, clock, session, nextMessageId>>

\* notify_creator (every send error is caught), then the handler's answer
notify_creator_step(i) ==
    LET t == tasks[i]
    IN  /\ t.pc = "notify_creator"
        /\ \E ok \in BOOLEAN :
            last' = Outcome(t.h, t.user, t.event, "done",
                            IF ok /\ t.creator # NoneId THEN t.creator ELSE NoneId)
        /\ tasks' = [tasks EXCEPT ![i] = Idle]
        /\ UNCHANGED <<store, clock, session, nextMessageId>>

\* ---------------------------------------------------------- resubmission
\* mutant: the resubmission keeps the attendees
resubmit_updates_keeps_attendees ==
    [status |-> STATUS_PENDING, approved_by |-> NoneId, approved_at |-> NoneTime,
     moderator_note |-> NOTE_RESUBMITTED, moderation_messages |-> <<>>]

\* the fields cb_events_delete_confirm passes to update
resubmit_updates ==
    [status |-> STATUS_PENDING, approved_by |-> NoneId, approved_at |-> NoneTime,
     moderator_note |-> NOTE_RESUBMITTED, attendees |-> <<>>,
     moderation_messages |-> <<>>]

cb_events_delete_confirm(u, e) ==
    /\ UNCHANGED <<clock, session, nextMessageId>>
    /\ IF e \notin DOMAIN store
       THEN /\ last' = Outcome("delete_confirm", u, e, "not_found", NoneId)
            /\ UNCHANGED <<store, tasks>>
       ELSE IF ~can_manage_event(u, get(store, e))
       THEN /\ last' = Outcome("delete_confirm", u, e, "denied", NoneId)
            /\ UNCHANGED <<store, tasks>>
       ELSE LET doc == update(store, e, resubmit_updates, clock)
            IN  /\ FreeSlots # {}
                /\ store' = [store EXCEPT ![e] = doc]
                /\ tasks' = [tasks EXCEPT ![FreeSlot] =
                        [Idle EXCEPT !.h = "delete_confirm", !.pc = "notify_admins",
                                     !.user = u, !.event = from_dict(doc).id,
                                     !.admins = ADMIN_ORDER]]
                /\ last' = Outcome("delete_confirm", u, e, "stored", NoneId)

\* ------------------------------------------------------------- attendees
\* mutant: signup does not test the status
signup_always(event) == TRUE

\* mutant: signup is refused on a rejected event only
signup_allowed_undecided(event) == event.status # STATUS_REJECTED

signup_allowed(event) == event.status = STATUS_APPROVED

\* mutant: the write carries a list read before the other signups
signup_attendees_stale(event, user_id) == <<user_id>>

signup_attendees(event, user_id) == Append(event.attendees, user_id)

cb_events_signup(u, e) ==
    /\ UNCHANGED <<clock, session, tasks, nextMessageId>>
    /\ IF e \notin DOMAIN store
       THEN /\ last' = Outcome("signup", u, e, "not_found", NoneId)
            /\ UNCHANGED store
       ELSE IF ~signup_allowed(get(store, e))
       THEN /\ last' = Outcome("signup", u, e, "unavailable", NoneId)
            /\ UNCHANGED store
       ELSE IF is_user_registered(get(store, e), u)
       THEN /\ last' = Outcome("signup", u, e, "already_registered", NoneId)
            /\ UNCHANGED store
       ELSE /\ store' = [store EXCEPT ![e] =
                    update(store, e,
                           [attendees |-> signup_attendees(get(store, e), u)], clock)]
            /\ last' = Outcome("signup", u, e, "signed_up", NoneId)

\* mutant: signoff drops the first attendee
signoff_drops_first(event, user_id) == Tail(event.attendees)

signoff_attendees(event, user_id) == SelectSeq(event.attendees, LAMBDA uid : uid # user_id)

cb_events_signoff(u, e) ==
    /\ UNCHANGED <<clock, session, tasks, nextMessageId>>
    /\ IF e \notin DOMAIN store
       THEN /\ last' = Outcome("signoff", u, e, "not_found", NoneId)
            /\ UNCHANGED store
       ELSE IF ~is_user_registered(get(store, e), u)
       THEN /\ last' = Outcome("signoff", u, e, "not_registered", NoneId)
            /\ UNCHANGED store
       ELSE /\ store' = [store EXCEPT ![e] =
                    update(store, e,
                           [attendees |-> signoff_attendees(get(store, e), u)], clock)]
            /\ last' = Outcome("signoff", u, e, "signed_off", NoneId)

\* ------------------------------------------------------------ visibility
LEGACY_TAG_ALL == "all"

\* user_track of a profile: one of the three tracks, or None when the
\* direction resolves to none
Tracks == {"bachelor", "master", "postgraduate", NoneText}

Contains(seq, x) == \E i \in DOMAIN seq : seq[i] = x

\* mutant: an approved event is visible whatever its tags
event_visible_ignores_tags(event, user) ==
    \/ user.tg_id \in ADMIN_IDS
    \/ user.tg_id = event.created_by
    \/ event.status = STATUS_APPROVED

\* user is the profile load_user found (the middleware has upserted it)
event_visible_for_user(event, user) ==
    IF user.tg_id \in ADMIN_IDS THEN TRUE
    ELSE IF user.tg_id = event.created_by THEN TRUE
    ELSE IF event.status # STATUS_APPROVED THEN FALSE
    ELSE IF event.tags = <<>> THEN TRUE
    ELSE IF Contains(event.tags, LEGACY_TAG_ALL) THEN TRUE
    ELSE IF user.track = NoneText THEN FALSE
    ELSE Contains(event.tags, user.track)

\* list_all: every row, newest id first
list_all(table) == [i \in 1..Len(table) |-> get(table, Len(table) - i + 1)]

ViewOutcome(h, u, e, out, track, visible) ==
    [h |-> h, user |-> u, event |-> e, out |-> out, to |-> NoneId,
     before |-> Before(e), track |-> track, visible |-> visible]

\* render_events_view up to its filter: the events the listing is built from
render_events_view(u, track) ==
    LET user == [tg_id |-> u, track |-> track]
        events == SelectSeq(list_all(store), LAMBDA event : event_visible_for_user(event, user))
    IN  /\ last' = ViewOutcome("list", u, NoneId, "rendered", track,
                               [i \in DOMAIN events |-> events[i].id])
        /\ UNCHANGED <<store, clock, session, tasks, nextMessageId>>

cb_event_details(u, e) ==
    /\ UNCHANGED <<store, clock, session, tasks, nextMessageId>>
    /\ IF e \notin DOMAIN store
       THEN last' = Outcome("details", u, e, "not_found", NoneId)
       ELSE IF get(store, e).status # STATUS_APPROVED /\ ~can_manage_event(u, get(store, e))
       THEN last' = Outcome("details", u, e, "not_found", NoneId)
       ELSE last' = Outcome("details", u, e, "shown", u)

\* ----------------------------------------------------------------- edit
\* FSMContext.update_data: the keys given replace or extend the stored data
update_data(data, upd) ==
    [k \in DOMAIN data \cup DOMAIN upd |-> IF k \in DOMAIN upd THEN upd[k] ELSE data[k]]

\* mutant: the gate does not test that the event was found
edit_gate_found(u, e) ==
    IF e \in DOMAIN store /\ ~can_manage_event(u, get(store, e)) THEN "denied" ELSE "ok"

\* the handlers' gate: the event is read and the caller must be able to manage it
edit_gate(u, e) ==
    IF e \notin DOMAIN store THEN "not_found"
    ELSE IF ~can_manage_event(u, get(store, e)) THEN "denied"
    ELSE "ok"

\* Of the session data the edit handlers write, edit_event_id and edit_tags are
\* the keys a handler reads back; the others (chat and message ids, page,
\* edit_field) only place the menu message and are left out.  edit_tags None is
\* the empty list (every reader takes "edit_tags or []"), and the data left by
\* state.clear() is NoSession's.
cb_events_edit(u, e) ==
    /\ UNCHANGED <<store, clock, tasks, nextMessageId>>
    /\ last' = Outcome("edit", u, e, edit_gate(u, e), NoneId)
    /\ IF edit_gate(u, e) # "ok"
       THEN UNCHANGED session
       ELSE session' = [session EXCEPT ![u] =
                [state |-> "edit_menu",
                 data |-> update_data(NoSession.data,
                            [edit_event_id |-> e, edit_tags |-> <<>>])]]

cb_events_edit_close(u, e) ==
    /\ UNCHANGED <<store, clock, tasks, nextMessageId>>
    /\ last' = Outcome("edit_close", u, e, edit_gate(u, e), NoneId)
    /\ IF edit_gate(u, e) # "ok"
       THEN UNCHANGED session
       ELSE session' = [session EXCEPT ![u] = NoSession]

cb_events_edit_menu(u, e) ==
    /\ UNCHANGED <<store, clock, tasks, nextMessageId>>
    /\ last' = Outcome("edit_menu", u, e, edit_gate(u, e), NoneId)
    /\ IF edit_gate(u, e) # "ok"
       THEN UNCHANGED session
       ELSE session' = [session EXCEPT ![u] =
                [state |-> "edit_menu",
                 data |-> update_data(session[u].data,
                            [edit_event_id |-> e, edit_tags |-> <<>>])]]

FIELD_PROMPTS == {"title", "date", "start_time", "end_time", "location", "description"}

cb_events_edit_field(u, field_key, e) ==
    /\ field_key \in FIELD_PROMPTS
    /\ UNCHANGED <<store, clock, tasks, nextMessageId>>
    /\ last' = Outcome("edit_field", u, e, edit_gate(u, e), NoneId)
    /\ IF edit_gate(u, e) # "ok"
       THEN UNCHANGED session
       ELSE session' = [session EXCEPT ![u] =
                [state |-> "edit_" \o field_key,
                 data |-> update_data(session[u].data, [edit_event_id |-> e])]]

\* _get_context: the event the session names, when it names one that exists
has_context(u) ==
    /\ "edit_event_id" \in DOMAIN session[u].data
    /\ session[u].data.edit_event_id \in DOMAIN store

\* datetimes <<date, hour>> in their order
Before_dt(a, b) == a[1] < b[1] \/ (a[1] = b[1] /\ a[2] < b[2])

\* EventRecord.scheduled_datetime and end_datetime; <<>> is None
scheduled_datetime(event) == Or(event.starts_at, event.scheduled_at, NoTime)
end_datetime(event) == event.ends_at

\* the updates _process_field_input computes from the event it read and the
\* text it was sent.  A text field is sent a string ("" is an empty message);
\* a date or a time is sent as the number it parses to, 0 when it does not
\* parse and -1 when the message is empty.
\* The result is the updates, or the error the prompt is shown again with.
field_updates(event, field_key, value, now) ==
    LET start_dt == scheduled_datetime(event)
        end_dt == end_datetime(event)
    IN  IF field_key \in {"title", "location", "description"}
        THEN IF value = "" THEN [error |-> "empty"]
             ELSE IF field_key = "title" THEN [title |-> value]
             ELSE IF field_key = "location" THEN [location |-> value]
             ELSE [short_description |-> value]
        ELSE IF value = -1 THEN [error |-> "empty"]
        ELSE IF value = 0 THEN [error |-> "format"]
        ELSE IF field_key = "date"
        THEN LET new_start == IF start_dt # NoTime THEN <<value, start_dt[2]>> ELSE <<value, now>>
             IN  IF end_dt # NoTime
                 THEN IF ~Before_dt(new_start, <<value, end_dt[2]>>)
                      THEN [error |-> "end_before_start"]
                      ELSE [ends_at |-> <<value, end_dt[2]>>, starts_at |-> new_start]
                 ELSE [starts_at |-> new_start]
        ELSE LET base_date == IF start_dt # NoTime THEN start_dt[1] ELSE now
             IN  IF field_key = "start_time"
                 THEN IF end_dt # NoTime /\ ~Before_dt(<<base_date, value>>, end_dt)
                      THEN [error |-> "start_after_end"]
                      ELSE [starts_at |-> <<base_date, value>>]
                 ELSE IF start_dt # NoTime /\ ~Before_dt(start_dt, <<base_date, value>>)
                      THEN [error |-> "end_before_start"]
                      ELSE [ends_at |-> <<base_date, value>>]

\* a handler suspended in message.delete(): the event it has read, the field
\* its state filter stands for and the text it was sent
EditTask(h, u, event, field_key, value) ==
    [h |-> h, pc |-> "message_delete", user |-> u, event |-> event.id,
     todo |-> <<>>, admins |-> <<>>, messages |-> <<>>, creator |-> NoneId,
     read |-> event, field |-> field_key, value |-> value]

\* edit_title .. edit_description up to the await of message.delete().  Without
\* a context the handler deletes the message and ends.
_process_field_input(u, field_key, value) ==
    /\ field_key \in FIELD_PROMPTS
    /\ session[u].state = "edit_" \o field_key
    /\ UNCHANGED <<store, clock, session, nextMessageId>>
    /\ IF ~has_context(u)
       THEN /\ last' = Outcome("edit_" \o field_key, u, NoneId, "no_context", NoneId)
            /\ UNCHANGED tasks
       ELSE LET event == get(store, session[u].data.edit_event_id)
            IN  /\ FreeSlots # {}
                /\ tasks' = [tasks EXCEPT ![FreeSlot] =
                                EditTask("edit_input", u, event, field_key, value)]
                /\ last' = Outcome("edit_" \o field_key, u, event.id, "read", NoneId)

\* the rest of _process_field_input: validation against the event read before
\* the await, repo.update, and the return to the menu state
_process_field_input_write(i) ==
    LET t == tasks[i]
        updates == field_updates(t.read, t.field, t.value, clock)
    IN  /\ t.h = "edit_input"
        /\ t.pc = "message_delete"
        /\ tasks' = [tasks EXCEPT ![i] = Idle]
        /\ UNCHANGED <<clock, nextMessageId>>
        /\ IF "error" \in DOMAIN updates
           THEN /\ last' = Outcome("edit_" \o t.field, t.user, t.event, updates.error, NoneId)
                /\ UNCHANGED <<store, session>>
           ELSE /\ store' = [store EXCEPT ![t.event] = update(store, t.event, updates, clock)]
                /\ session' = [session EXCEPT ![t.user].state = "edit_menu"]
                /\ last' = Outcome("edit_" \o t.field, t.user, t.event, "stored", NoneId)

cb_set_link(u, e) ==
    /\ UNCHANGED <<store, clock, tasks, nextMessageId>>
    /\ last' = Outcome("set_link", u, e, edit_gate(u, e), NoneId)
    /\ IF edit_gate(u, e) # "ok"
       THEN UNCHANGED session
       ELSE session' = [session EXCEPT ![u] =
                [state |-> "edit_link",
                 data |-> update_data(session[u].data, [edit_event_id |-> e])]]

\* edit_link up to the await of message.delete(); the context is read first
edit_link(u, text) ==
    /\ session[u].state = "edit_link"
    /\ FreeSlots # {}
    /\ UNCHANGED <<store, clock, session, nextMessageId>>
    /\ LET event == IF has_context(u)
                    THEN get(store, session[u].data.edit_event_id) ELSE BlankDoc
       IN  /\ tasks' = [tasks EXCEPT ![FreeSlot] = EditTask("edit_link", u, event, "link", text)]
           /\ last' = Outcome("edit_link", u, event.id, "read", NoneId)

link_updates(text) == [registration_link |-> IF text = "-" THEN "" ELSE text]

edit_link_write(i) ==
    LET t == tasks[i]
    IN  /\ t.h = "edit_link"
        /\ t.pc = "message_delete"
        /\ tasks' = [tasks EXCEPT ![i] = Idle]
        /\ UNCHANGED <<clock, nextMessageId>>
        /\ IF t.read.id = NoneId
           THEN /\ session' = [session EXCEPT ![t.user] = NoSession]
                /\ last' = Outcome("edit_link", t.user, NoneId, "no_context", NoneId)
                /\ UNCHANGED store
           ELSE IF t.value = ""
           THEN /\ last' = Outcome("edit_link", t.user, t.event, "empty", NoneId)
                /\ UNCHANGED <<store, session>>
           ELSE /\ store' = [store EXCEPT ![t.event] =
                        update(store, t.event, link_updates(t.value), clock)]
                /\ session' = [session EXCEPT ![t.user].state = "edit_menu"]
                /\ last' = Outcome("edit_link", t.user, t.event, "stored", NoneId)

\* TAG_ORDER as a set, and normalize_tags: the known tags among a selection,
\* in TAG_ORDER's order
Vocabulary == {TAG_ORDER[i] : i \in DOMAIN TAG_ORDER}
AsSet(seq) == {seq[i] : i \in DOMAIN seq}
normalize_tags(selected) == SelectSeq(TAG_ORDER, LAMBDA slug : slug \in selected)

cb_edit_tags(u, e) ==
    /\ UNCHANGED <<store, clock, tasks, nextMessageId>>
    /\ last' = Outcome("edit_tags", u, e, edit_gate(u, e), NoneId)
    /\ IF edit_gate(u, e) # "ok"
       THEN UNCHANGED session
       ELSE LET event == get(store, e)
                tags == normalize_tags(AsSet(IF event.tags # <<>> THEN event.tags ELSE TAG_ORDER))
            IN  session' = [session EXCEPT ![u] =
                    [state |-> "edit_tags",
                     data |-> update_data(session[u].data,
                                [edit_event_id |-> e, edit_tags |-> tags])]]

\* the selection kept in the session; a session without the key reads as empty
edit_tags_of(u) ==
    IF "edit_tags" \in DOMAIN session[u].data THEN session[u].data.edit_tags ELSE <<>>

cb_edit_tags_toggle(u, slug, e) ==
    LET selected == AsSet(edit_tags_of(u))
        tags == normalize_tags(IF slug \in selected THEN selected \ {slug}
                               ELSE selected \cup {slug})
    IN  /\ session[u].state = "edit_tags"
        /\ UNCHANGED <<store, clock, tasks, nextMessageId>>
        /\ IF slug \notin Vocabulary
           THEN /\ last' = Outcome("edit_tags_toggle", u, e, "unknown_tag", NoneId)
                /\ UNCHANGED session
           ELSE IF slug \in selected /\ Cardinality(selected) = 1
           THEN /\ last' = Outcome("edit_tags_toggle", u, e, "keep_one", NoneId)
                /\ UNCHANGED session
           ELSE /\ session' = [session EXCEPT ![u].data =
                                  update_data(session[u].data, [edit_tags |-> tags])]
                /\ last' = Outcome("edit_tags_toggle", u, e,
                                   IF e \in DOMAIN store THEN "toggled" ELSE "not_found", NoneId)

\* mutant: a commit is never refused
no_selection_never(tags) == FALSE

\* "if not tags": the commit handlers' test of the selection
no_selection(tags) == tags = <<>>

\* the event id is the one of the callback data; the session is asked only
\* for the selection
cb_edit_tags_done(u, e) ==
    LET tags == normalize_tags(AsSet(edit_tags_of(u)))
    IN  /\ session[u].state = "edit_tags"
        /\ UNCHANGED <<clock, tasks, nextMessageId>>
        /\ IF no_selection(tags)
           THEN /\ last' = Outcome("edit_tags_done", u, e, "none_selected", NoneId)
                /\ UNCHANGED <<store, session>>
           ELSE IF e \notin DOMAIN store
           THEN /\ last' = Outcome("edit_tags_done", u, e, "not_updated", NoneId)
                /\ UNCHANGED <<store, session>>
           ELSE /\ store' = [store EXCEPT ![e] = update(store, e, [tags |-> tags], clock)]
                /\ session' = [session EXCEPT ![u] =
                        [state |-> "edit_menu",
                         data |-> update_data(session[u].data, [edit_tags |-> <<>>])]]
                /\ last' = Outcome("edit_tags_done", u, e, "stored", NoneId)

\* the participant list of an event
cb_events_participants(u, e) ==
    /\ UNCHANGED <<store, clock, session, tasks, nextMessageId>>
    /\ last' = Outcome("participants", u, e,
                       IF edit_gate(u, e) = "ok" THEN "shown" ELSE edit_gate(u, e),
                       IF edit_gate(u, e) = "ok" THEN u ELSE NoneId)

\* ------------------------------------------------------------------ spec
Next ==
    \/ Tick
    \/ \E u \in Users : cb_creation_submit(u)
    \/ \E u \in Users, e \in EventIds : cb_events_approve(u, e)
    \/ \E u \in Users, e \in EventIds : cb_events_reject(u, e)
    \/ \E u \in Users, e \in EventIds : cb_events_delete_confirm(u, e)
    \/ \E u \in Users, e \in EventIds : cb_events_signup(u, e)
    \/ \E u \in Users, e \in EventIds : cb_events_signoff(u, e)
    \/ \E i \in Slots : notify_admins_step(i)
    \/ \E i \in Slots : update_moderation_messages_step(i)
    \/ \E i \in Slots : notify_creator_step(i)

Spec == Init /\ [][Next]_vars

\* A handler suspended at an await is resumed by the event loop once the call
\* returns; nothing obliges a user to send anything.
Resume ==
    \E i \in Slots :
        notify_admins_step(i) \/ update_moderation_messages_step(i) \/ notify_creator_step(i)

FairSpec == Spec /\ WF_vars(Resume)

\* ------------------------------------------------- specification: views
\* The listing and the detail view read the table and write nothing, so they
\* are checked over a table holding one event of user 2 in each status and
\* with each kind of tag list (none, the legacy "all", one track, two tracks),
\* as a submit followed by an administrator's decision leaves it.
ViewTags == {<<>>, <<LEGACY_TAG_ALL>>, <<"master">>, <<"bachelor", "master">>}

Submitted(u, tags) ==
    insert(<<>>, creation_payload(u, [(CHOOSE c \in ConfirmSessions(u) : TRUE).data
                                         EXCEPT !.tags = tags]), 1)

Moderated(doc, status) ==
    IF status = STATUS_APPROVED THEN update(<<doc>>, 1, approve_updates(1, 1), 1)
    ELSE IF status = STATUS_REJECTED THEN update(<<doc>>, 1, reject_updates(1, 1), 1)
    ELSE doc

ViewDocs ==
    {Moderated(Submitted(2, tags), status) :
        tags \in ViewTags, status \in {STATUS_PENDING, STATUS_APPROVED, STATUS_REJECTED}}

InitView ==
    /\ store \in {<<doc>> : doc \in ViewDocs}
    /\ clock = 1
    /\ session = [u \in Users |-> NoSession]
    /\ tasks = [i \in Slots |-> Idle]
    /\ nextMessageId = 1
    /\ last = [h |-> "init", user |-> NoneId, event |-> NoneId, out |-> "", to |-> NoneId, before |-> BlankDoc]

NextView ==
    \/ \E u \in Users, track \in Tracks : render_events_view(u, track)
    \/ \E u \in Users, e \in 1..(MaxEvents + 1) : cb_event_details(u, e)

SpecView == InitView /\ [][NextView]_vars

\* ------------------------------------------------- specification: edits
\* The edit handlers over a table holding one event of user 2, approved and
\* with user 3 signed up, all at time 1; the edits come later, at time
\* MaxClock, from user 2 (the creator).  Who may edit is the matter of SpecGate.
Editors == {2}
TextInputs == {"New"}
DateInputs == {0, 11}
TimeInputs == {19}
LinkInputs == {"-", "https://reg"}
ToggleSlugs == {"bachelor", "alumni"}

EditDocs ==
    LET pending == Submitted(2, <<"master">>)
        approved == Moderated(pending, STATUS_APPROVED)
    IN  {update(<<approved>>, 1, [attendees |-> signup_attendees(approved, 3)], 1)}

InitEdit ==
    /\ store \in {<<doc>> : doc \in EditDocs}
    /\ clock = MaxClock
    /\ session = [u \in Users |-> NoSession]
    /\ tasks = [i \in Slots |-> Idle]
    /\ nextMessageId = 1
    /\ last = [h |-> "init", user |-> NoneId, event |-> NoneId, out |-> "", to |-> NoneId, before |-> BlankDoc]

FieldInputs(field_key) ==
    IF field_key \in {"title", "location", "description"} THEN TextInputs
    ELSE IF field_key = "date" THEN DateInputs
    ELSE TimeInputs

NextEdit ==
    \/ \E u \in Editors, e \in EventIds : cb_events_edit(u, e)
    \/ \E u \in Editors, e \in EventIds : cb_events_edit_close(u, e)
    \/ \E u \in Editors, e \in EventIds : cb_events_edit_menu(u, e)
    \/ \E u \in Editors, e \in EventIds, field_key \in FIELD_PROMPTS :
          cb_events_edit_field(u, field_key, e)
    \/ \E u \in Editors, field_key \in FIELD_PROMPTS :
          \E value \in FieldInputs(field_key) : _process_field_input(u, field_key, value)
    \/ \E i \in Slots : _process_field_input_write(i)
    \/ \E u \in Editors, e \in EventIds : cb_set_link(u, e)
    \/ \E u \in Editors, text \in LinkInputs : edit_link(u, text)
    \/ \E i \in Slots : edit_link_write(i)
    \/ \E u \in Editors, e \in EventIds : cb_edit_tags(u, e)
    \/ \E u \in Editors, e \in EventIds, slug \in ToggleSlugs : cb_edit_tags_toggle(u, slug, e)
    \/ \E u \in Editors, e \in EventIds : cb_edit_tags_done(u, e)

SpecEdit == InitEdit /\ [][NextEdit]_vars

\* --------------------------------------------- specification: the gates
\* Who may edit: a table holding the event of user 2 and the event of user 3,
\* both as their submits left them at time 1; later, at time MaxClock, user 3,
\* who is no administrator, sends the callbacks and messages of the title edit,
\* the tag edit and the participant list, naming either event.
Gated == {3}
GateEvents == 1..2

GateTable ==
    LET first == Submitted(2, <<"master">>)
        second == insert(<<first>>,
                         creation_payload(3, [(CHOOSE c \in ConfirmSessions(3) : TRUE).data
                                                 EXCEPT !.tags = <<"master">>]), 1)
    IN  <<first, second>>

InitGate ==
    /\ store = GateTable
    /\ clock = MaxClock
    /\ session = [u \in Users |-> NoSession]
    /\ tasks = [i \in Slots |-> Idle]
    /\ nextMessageId = 1
    /\ last = [h |-> "init", user |-> NoneId, event |-> NoneId, out |-> "", to |-> NoneId, before |-> BlankDoc]

NextGate ==
    \/ \E u \in Gated, e \in GateEvents : cb_events_edit_field(u, "title", e)
    \/ \E u \in Gated, value \in TextInputs : _process_field_input(u, "title", value)
    \/ \E i \in Slots : _process_field_input_write(i)
    \/ \E u \in Gated, e \in GateEvents : cb_edit_tags(u, e)
    \/ \E u \in Gated, e \in GateEvents : cb_edit_tags_toggle(u, "bachelor", e)
    \/ \E u \in Gated, e \in GateEvents : cb_edit_tags_done(u, e)
    \/ \E u \in Gated, e \in GateEvents : cb_events_participants(u, e)

SpecGate == InitGate /\ [][NextGate]_vars

\* ------------------------------------------ specification: the store alone
\* EventsRepository.insert and EventsRepository.update called with payloads
\* whose tags are any list of strings: slugs of the vocabulary, the legacy
\* sentinel and a slug outside the vocabulary.
TagLists ==
    {<<>>, <<"master">>, <<"alumni">>, <<"master", "alumni">>, <<LEGACY_TAG_ALL>>, TAG_ORDER}

StoreUpdates == {[tags |-> tg] : tg \in TagLists} \cup {[title |-> "New"]}

InitStore ==
    /\ store = <<>>
    /\ clock = 1
    /\ session = [u \in Users |-> NoSession]
    /\ tasks = [i \in Slots |-> Idle]
    /\ nextMessageId = 1
    /\ last = [h |-> "init", user |-> NoneId, event |-> NoneId, out |-> "", to |-> NoneId, before |-> BlankDoc]

events_repo_insert(tags) ==
    /\ Len(store) < MaxEvents
    /\ store' = Append(store, insert(store, creation_payload(2,
                    [(CHOOSE c \in ConfirmSessions(2) : TRUE).data EXCEPT !.tags = tags]), clock))
    /\ last' = Outcome("insert", NoneId, Len(store) + 1, "stored", NoneId)
    /\ UNCHANGED <<clock, session, tasks, nextMessageId>>

events_repo_update(e, updates) ==
    /\ e \in DOMAIN store
    /\ store' = [store EXCEPT ![e] = update(store, e, updates, clock)]
    /\ last' = Outcome("update", NoneId, e, "stored", NoneId)
    /\ UNCHANGED <<clock, session, tasks, nextMessageId>>

NextStore ==
    \/ \E tags \in TagLists : events_repo_insert(tags)
    \/ \E e \in 1..MaxEvents, updates \in StoreUpdates : events_repo_update(e, updates)
    \/ Tick

SpecStore == InitStore /\ [][NextStore]_vars

\* ------------------------------------------------ the creation wizard
CREATION_SEQUENCE ==
    <<"title", "date", "start_time", "end_time", "location", "description", "tags", "confirm">>

\* the position of a state in CREATION_SEQUENCE, from 1; 0 is Python's None
_state_index(state_name) ==
    IF \E i \in DOMAIN CREATION_SEQUENCE : CREATION_SEQUENCE[i] = state_name
    THEN CHOOSE i \in DOMAIN CREATION_SEQUENCE : CREATION_SEQUENCE[i] = state_name
    ELSE 0

\* mutant: the step after the next one
_next_state_skips(state_name) ==
    LET index == _state_index(state_name)
    IN  IF index = 0 \/ index + 2 > Len(CREATION_SEQUENCE) THEN "none"
        ELSE CREATION_SEQUENCE[index + 2]

\* "none" is Python's None
_next_state(state_name) ==
    LET index == _state_index(state_name)
    IN  IF index = 0 \/ index + 1 > Len(CREATION_SEQUENCE) THEN "none"
        ELSE CREATION_SEQUENCE[index + 1]

_prev_state(state_name) ==
    LET index == _state_index(state_name)
    IN  IF index = 0 \/ index = 1 THEN "none"
        ELSE CREATION_SEQUENCE[index - 1]

\* A text message: its stripped text and what _parse_date and _parse_time make
\* of that text (0: the text does not parse).
Message(text, date, time) == [text |-> text, date |-> date, time |-> time]
_parse_date(value) == value.date
_parse_time(value) == value.time

\* What a wizard handler did: as Outcome, with the state of the user's session
\* before the step (from) and the state the handler leaves it in (step).
WizardOutcome(h, u, out, step) ==
    [h |-> h, user |-> u, event |-> NoneId, out |-> out, to |-> NoneId,
     before |-> BlankDoc, from |-> session[u].state, step |-> step]

\* the session data after state.clear() and _set_defaults; the keys of the
\* wizard's message (chat_id, main_message_id, origin_page, origin_show_past)
\* only address that message and are left out
_set_defaults(u) ==
    [BlankData EXCEPT !.contact_name = build_contact_info(u).name,
                      !.contact_url = build_contact_info(u).url,
                      !.registration_link = "",
                      !.tags = TAG_ORDER]

\* mutant: the error note takes the title with it
_set_error_forgets(data, error) ==
    update_data([data EXCEPT !.title = ""], [error |-> error])

\* the error note of the wizard's message; NoneText is no note
_set_error(data, error) == update_data(data, [error |-> error])

start_creation(u) ==
    /\ session' = [session EXCEPT ![u] =
            [state |-> "title", data |-> update_data(_set_defaults(u), [error |-> NoneText])]]
    /\ last' = WizardOutcome("start_creation", u, "started", "title")
    /\ UNCHANGED <<store, clock, tasks, nextMessageId>>

TextSteps == {"title", "date", "start_time", "end_time", "location", "description"}

\* handle_creation_text up to the await of message.delete(): the state filter
\* has passed and the text is taken from the message
handle_creation_text(u, value) ==
    /\ session[u].state \in TextSteps
    /\ FreeSlots # {}
    /\ tasks' = [tasks EXCEPT ![FreeSlot] =
                    [h |-> "creation_text", pc |-> "message_delete", user |-> u,
                     event |-> NoneId, todo |-> <<>>, admins |-> <<>>, messages |-> <<>>,
                     creator |-> NoneId, value |-> value]]
    /\ last' = WizardOutcome("creation_text", u, "read", session[u].state)
    /\ UNCHANGED <<store, clock, session, nextMessageId>>

\* mutant: the end time is not compared with the start time
_handle_input_any_end(current_state, data, value) ==
    CASE current_state = "title" -> [data |-> [data EXCEPT !.title = value.text]]
      [] current_state = "date" ->
            IF _parse_date(value) = 0 THEN [error |-> "bad_date"]
            ELSE [data |-> [data EXCEPT !.event_date = _parse_date(value)]]
      [] current_state = "start_time" ->
            IF _parse_time(value) = 0 THEN [error |-> "bad_time"]
            ELSE [data |-> [data EXCEPT !.start_time = _parse_time(value)]]
      [] current_state = "end_time" ->
            IF _parse_time(value) = 0 THEN [error |-> "bad_time"]
            ELSE [data |-> [data EXCEPT !.end_time = _parse_time(value)]]
      [] current_state = "location" -> [data |-> [data EXCEPT !.location = value.text]]
      [] current_state = "description" ->
            [data |-> [data EXCEPT !.short_description = value.text]]
      [] OTHER -> [error |-> "ignored"]

\* what _handle_input does with the value in the state it reads: the data it
\* stores, or the error it shows
_handle_input(current_state, data, value) ==
    CASE current_state = "title" -> [data |-> [data EXCEPT !.title = value.text]]
      [] current_state = "date" ->
            IF _parse_date(value) = 0 THEN [error |-> "bad_date"]
            ELSE [data |-> [data EXCEPT !.event_date = _parse_date(value)]]
      [] current_state = "start_time" ->
            IF _parse_time(value) = 0 THEN [error |-> "bad_time"]
            ELSE [data |-> [data EXCEPT !.start_time = _parse_time(value)]]
      [] current_state = "end_time" ->
            IF _parse_time(value) = 0 THEN [error |-> "bad_time"]
            ELSE IF data.start_time # 0 /\ _parse_time(value) <= data.start_time
                 THEN [error |-> "end_before_start"]
                 ELSE [data |-> [data EXCEPT !.end_time = _parse_time(value)]]
      [] current_state = "location" -> [data |-> [data EXCEPT !.location = value.text]]
      [] current_state = "description" ->
            [data |-> [data EXCEPT !.short_description = value.text]]
      [] OTHER -> [error |-> "ignored"]

\* the rest of handle_creation_text: the empty text is refused, _handle_input
\* reads the state the session has now and moves it to the next state
handle_creation_text_resume(i) ==
    LET t == tasks[i]
        u == t.user
        current_state == session[u].state
        cleared == update_data(session[u].data, [error |-> NoneText])
        result == _handle_input(current_state, cleared, t.value)
        accepted == t.value.text # "" /\ "data" \in DOMAIN result
        next_state == _next_state(current_state)
    IN  /\ t.h = "creation_text"
        /\ tasks' = [tasks EXCEPT ![i] = Idle]
        /\ session' = [session EXCEPT ![u] =
                IF t.value.text = "" THEN [@ EXCEPT !.data = _set_error(@, "empty")]
                ELSE IF accepted
                THEN [state |-> IF next_state # "none" THEN next_state ELSE current_state,
                      data |-> result.data]
                ELSE IF result.error = "ignored" THEN [@ EXCEPT !.data = cleared]
                ELSE [@ EXCEPT !.data = _set_error(cleared, result.error)]]
        /\ last' = WizardOutcome("creation_text", u,
                        IF t.value.text = "" THEN "empty"
                        ELSE IF accepted THEN "accepted" ELSE result.error,
                        IF accepted /\ next_state # "none" THEN next_state ELSE current_state)
        /\ UNCHANGED <<store, clock, nextMessageId>>

\* a text message in the tag step only sets the error note
handle_tags_text(u) ==
    /\ session[u].state = "tags"
    /\ session' = [session EXCEPT ![u].data = _set_error(@, "use_buttons")]
    /\ last' = WizardOutcome("tags_text", u, "use_buttons", "tags")
    /\ UNCHANGED <<store, clock, tasks, nextMessageId>>

cb_toggle_tag(u, slug) ==
    LET selected == AsSet(session[u].data.tags)
    IN  /\ session[u].state = "tags"
        /\ UNCHANGED <<store, clock, tasks, nextMessageId>>
        /\ IF slug \notin Vocabulary
           THEN /\ last' = WizardOutcome("toggle_tag", u, "unknown_tag", "tags")
                /\ UNCHANGED session
           ELSE IF slug \in selected /\ Cardinality(selected) = 1
           THEN /\ last' = WizardOutcome("toggle_tag", u, "keep_one", "tags")
                /\ UNCHANGED session
           ELSE /\ session' = [session EXCEPT ![u].data = update_data(@,
                        [tags |-> normalize_tags(IF slug \in selected THEN selected \ {slug}
                                                 ELSE selected \cup {slug}),
                         error |-> NoneText])]
                /\ last' = WizardOutcome("toggle_tag", u, "toggled", "tags")

cb_tags_done(u) ==
    /\ session[u].state = "tags"
    /\ UNCHANGED <<store, clock, tasks, nextMessageId>>
    /\ IF no_selection(session[u].data.tags)
       THEN /\ last' = WizardOutcome("tags_done", u, "none_selected", "tags")
            /\ UNCHANGED session
       ELSE /\ session' = [session EXCEPT ![u] =
                    [state |-> "confirm", data |-> update_data(@.data, [error |-> NoneText])]]
            /\ last' = WizardOutcome("tags_done", u, "accepted", "confirm")

\* no state filter: in the first step and outside the wizard the session is cleared
cb_creation_back(u) ==
    LET previous == _prev_state(session[u].state)
    IN  /\ UNCHANGED <<store, clock, tasks, nextMessageId>>
        /\ IF previous = "none"
           THEN /\ session' = [session EXCEPT ![u] = NoSession]
                /\ last' = WizardOutcome("back", u, "cancelled", "none")
           ELSE /\ session' = [session EXCEPT ![u] =
                        [state |-> previous, data |-> update_data(@.data, [error |-> NoneText])]]
                /\ last' = WizardOutcome("back", u, "back", previous)

\* ----------------------------------------------- specification: the wizard
\* One user goes through the creation wizard.  The messages a user sends in a
\* step are a name, a date, two times and the empty text; a message is read in
\* the state the session has when its handler resumes.
Creators == {2}

\* the messages sent in a step: what the step asks for, and one it refuses
MessagesAt(state_name) ==
    CASE state_name = "date" -> {Message("10.11.2026", 10, 0), Message("Talk", 0, 0)}
      [] state_name \in {"start_time", "end_time"} ->
            {Message("18:00", 0, 18), Message("20:00", 0, 20), Message("Talk", 0, 0)}
      [] OTHER -> {Message("Talk", 0, 0), Message("", 0, 0)}

InitWizard ==
    /\ store = <<>>
    /\ clock = 1
    /\ session = [u \in Users |-> NoSession]
    /\ tasks = [i \in Slots |-> Idle]
    /\ nextMessageId = 1
    /\ last = [h |-> "init", user |-> NoneId, event |-> NoneId, out |-> "", to |-> NoneId,
               before |-> BlankDoc, from |-> "none", step |-> "none"]

NextWizard ==
    \/ \E u \in Creators : start_creation(u)
    \/ \E u \in Creators : \E value \in MessagesAt(session[u].state) :
          handle_creation_text(u, value)
    \/ \E i \in Slots : handle_creation_text_resume(i)
    \/ \E u \in Creators : handle_tags_text(u)
    \/ \E u \in Creators, slug \in ToggleSlugs : cb_toggle_tag(u, slug)
    \/ \E u \in Creators : cb_tags_done(u)
    \/ \E u \in Creators : cb_creation_back(u)
    \/ \E u \in Creators : cb_creation_submit(u)
    \/ \E i \in Slots : notify_admins_step(i)

SpecWizard == InitWizard /\ [][NextWizard]_vars

\* ------------------------------------------ specification: refused input
\* The inputs the wizard and the field edit refuse.  User 2, creator of the
\* approved event 1 (day 10, 18:00 to 20:00), goes through the text steps of
\* the wizard and edits the title, the date and the end time of the event;
\* among the texts sent are the empty one, ones that do not parse, and an end
\* time before the start.
InputFields == {"title", "date", "end_time"}

InputsOf(field_key) ==
    IF field_key = "title" THEN {"New", ""}
    ELSE IF field_key = "date" THEN {0, 11}
    ELSE {-1, 0, 17, 19}

NextInput ==
    \/ \E u \in Creators : start_creation(u)
    \/ \E u \in Creators : \E value \in MessagesAt(session[u].state) :
          handle_creation_text(u, value)
    \/ \E i \in Slots : handle_creation_text_resume(i)
    \/ \E u \in Creators : handle_tags_text(u)
    \/ \E u \in Creators : cb_creation_back(u)
    \/ \E u \in Creators, e \in EventIds, field_key \in InputFields :
          cb_events_edit_field(u, field_key, e)
    \/ \E u \in Creators, field_key \in InputFields :
          \E value \in InputsOf(field_key) : _process_field_input(u, field_key, value)
    \/ \E i \in Slots : _process_field_input_write(i)

SpecInput == InitEdit /\ [][NextInput]_vars

\* ------------------------------------------- specification: tag selection
\* The tag selections of the wizard and of the edit.  Either user 2 stands in
\* the tag step of the wizard with every field collected and the default
\* selection, and the table is empty; or the table holds a legacy record of
\* user 2 whose tags are the sentinel, for which the edit starts from an empty
\* selection.
TagSlugs == Vocabulary \cup {"alumni"}

TagStepSession(u) ==
    [state |-> "tags",
     data |-> update_data([(CHOOSE c \in ConfirmSessions(u) : TRUE).data EXCEPT !.tags = TAG_ORDER],
                          [error |-> NoneText])]

InitTags ==
    /\ \/ /\ store = <<>>
          /\ session = [u \in Users |-> IF u \in Creators THEN TagStepSession(u) ELSE NoSession]
       \/ /\ store = <<Submitted(2, <<LEGACY_TAG_ALL>>)>>
          /\ session = [u \in Users |-> NoSession]
    /\ clock = 1
    /\ tasks = [i \in Slots |-> Idle]
    /\ nextMessageId = 1
    /\ last = [h |-> "init", user |-> NoneId, event |-> NoneId, out |-> "", to |-> NoneId,
               before |-> BlankDoc, from |-> "none", step |-> "none"]

NextTags ==
    \/ \E u \in Creators : handle_tags_text(u)
    \/ \E u \in Creators, slug \in TagSlugs : cb_toggle_tag(u, slug)
    \/ \E u \in Creators : cb_tags_done(u)
    \/ \E u \in Creators : cb_creation_back(u)
    \/ \E u \in Creators : cb_creation_submit(u)
    \/ \E i \in Slots : notify_admins_step(i)
    \/ \E u \in Creators, e \in EventIds : cb_edit_tags(u, e)
    \/ \E u \in Creators, e \in EventIds, slug \in TagSlugs : cb_edit_tags_toggle(u, slug, e)
    \/ \E u \in Creators, e \in EventIds : cb_edit_tags_done(u, e)

SpecTags == InitTags /\ [][NextTags]_vars

\* ------------------------------------- specification: lifecycle and edit
\* Every handler of Spec together with an edit of the title, from the empty
\* table and user 2 at the confirmation step.
InitLife ==
    /\ Init
    /\ session[2] \in ConfirmSessions(2)
    /\ session[2].data.tags = <<"master">>

NextLife ==
    \/ Next
    \/ \E e \in EventIds : cb_events_edit_field(2, "title", e)
    \/ \E value \in TextInputs : _process_field_input(2, "title", value)
    \/ \E i \in Slots : _process_field_input_write(i)

SpecLife == InitLife /\ [][NextLife]_vars

TypeOK ==
    /\ clock \in 1..MaxClock
    /\ Len(store) <= MaxEvents
    /\ \A e \in DOMAIN store : store[e].status \in {STATUS_PENDING, STATUS_APPROVED, STATUS_REJECTED}

\* ------------------------------------------------------------ properties
\* the step that led to this state was handler h ending in out
Did(h, out) == last.h = h /\ last.out = out

\* the event the last step named, as stored now and as read through get
Doc == store[last.event]
Rec == get(store, last.event)
Was == from_dict(last.before)

StatusStep(a, b) ==
    \/ a = b
    \/ a = STATUS_PENDING /\ b \in {STATUS_APPROVED, STATUS_REJECTED}
    \/ a \in {STATUS_APPROVED, STATUS_REJECTED} /\ b = STATUS_PENDING

\* C1: whatever approve, reject and resubmit steps are taken, a stored status is
\* one of pending, approved, rejected, and a step changes it only
\* pending->approved, pending->rejected, approved->pending or rejected->pending.
C1_StatusTransitions ==
    /\ \A e \in DOMAIN store :
          store[e].status \in {STATUS_PENDING, STATUS_APPROVED, STATUS_REJECTED}
    /\ (last.event \in DOMAIN store /\ last.before.id # NoneId)
          => StatusStep(last.before.status, Doc.status)

\* C2: an approve or reject by a user who is not an administrator (the event's
\* creator included) is answered as denied, writes nothing to the store, starts
\* no notification and delivers no message.
C2_NonAdminDenied ==
    [][\A u \in Users \ ADMIN_IDS, e \in EventIds :
          (cb_events_approve(u, e) \/ cb_events_reject(u, e))
              => /\ store' = store
                 /\ tasks' = tasks
                 /\ nextMessageId' = nextMessageId
                 /\ last'.out = "denied"
                 /\ last'.to = NoneId]_vars

C2_Witness ==
    /\ Did("approve", "denied")
    /\ last.event \in DOMAIN store
    /\ last.user = Doc.created_by
    /\ last.user \notin ADMIN_IDS
    /\ Doc.status = STATUS_PENDING

\* C3: an approve of an approved event and a reject of a rejected event write
\* nothing (every field, updated_at included, keeps its value), start no
\* notification, and are answered with their own "already done" answer.
C3_RepeatIsNoop ==
    [][\A u \in ADMIN_IDS, e \in DOMAIN store :
          /\ (cb_events_approve(u, e) /\ get(store, e).status = STATUS_APPROVED)
                => /\ store' = store
                   /\ tasks' = tasks
                   /\ nextMessageId' = nextMessageId
                   /\ last'.out = "already_approved"
                   /\ last'.to = NoneId
          /\ (cb_events_reject(u, e) /\ get(store, e).status = STATUS_REJECTED)
                => /\ store' = store
                   /\ tasks' = tasks
                   /\ nextMessageId' = nextMessageId
                   /\ last'.out = "already_rejected"
                   /\ last'.to = NoneId]_vars

C3_Witness ==
    /\ \/ Did("approve", "already_approved") /\ Doc.status = STATUS_APPROVED
       \/ Did("reject", "already_rejected") /\ Doc.status = STATUS_REJECTED
    /\ Doc.updated_at < clock
    /\ Doc.approved_at < clock

ModerationFields == {"status", "approved_by", "approved_at", "moderator_note", "updated_at"}

C5_RejectStores ==
    /\ Did("reject", "stored") =>
        /\ last.user \in ADMIN_IDS
        /\ Rec.status = STATUS_REJECTED
        /\ Rec.approved_by = last.user
        /\ Rec.approved_at # NoneTime
        /\ Rec.moderator_note \notin {NoneText, ""}
    /\ (Did("reject", "stored") \/ Did("approve", "stored")) =>
        \E i \in Slots :
            /\ tasks[i].h = last.h
            /\ tasks[i].event = last.event
            /\ tasks[i].todo = Rec.moderation_messages
            /\ tasks[i].creator = Rec.created_by
            /\ tasks[i].pc = IF Rec.moderation_messages = <<>>
                             THEN "notify_creator" ELSE "update_moderation_messages"
    /\ \A i \in Slots :
            (tasks[i].h \in {"approve", "reject"} /\ tasks[i].pc = "notify_creator")
                => tasks[i].todo = <<>>
    /\ (last.h \in {"approve", "reject"} /\ last.out = "done" /\ last.to # NoneId)
            => last.to = Doc.created_by
    /\ (last.h \in {"approve", "reject"} /\ last.out = "refreshing" /\ last.to # NoneId)
            => last.to \in ADMIN_IDS

C5_Witness ==
    /\ Did("reject", "done")
    /\ last.to = Doc.created_by
    /\ Doc.status = STATUS_REJECTED
    /\ Doc.moderation_messages # <<>>

\* C6 as stated: when a resubmission handler has completed, the stored event
\* has no attendees and no moderation message references.
C6_ResubmitLeavesEmpty ==
    (Did("delete_confirm", "done") /\ last.event \in DOMAIN store)
        => Doc.attendees = <<>> /\ Doc.moderation_messages = <<>>

\* C6 amended: the store write of a resubmission leaves attendees and
\* moderation_messages empty whatever they held; the broadcast that follows
\* leaves the attendees alone and, when it delivered a notice, records it in
\* moderation_messages; when it delivered none it writes nothing.
C6_ResubmitClearsThenRecords ==
    /\ Did("delete_confirm", "stored")
          => Doc.attendees = <<>> /\ Doc.moderation_messages = <<>>
    /\ (Did("delete_confirm", "done") /\ last.event \in DOMAIN store)
          => /\ Doc.attendees = last.before.attendees
             /\ last.to # NoneId =>
                   /\ Doc.moderation_messages # <<>>
                   /\ Doc.moderation_messages[Len(Doc.moderation_messages)]
                         = [chat_id |-> last.to, message_id |-> nextMessageId - 1]
             /\ (last.to = NoneId /\ Len(ADMIN_ORDER) = 1) => Doc = last.before

C6_Witness ==
    /\ Did("delete_confirm", "stored")
    /\ last.before.attendees # <<>>
    /\ last.before.moderation_messages # <<>>
    /\ Doc.attendees = <<>>
    /\ Doc.moderation_messages = <<>>

\* C7 as stated: a resubmission is stored only for the creator or an
\* administrator, and leaves status pending with approved_by, approved_at and
\* moderator_note all null.
C7_ResubmitResetsToNull ==
    Did("delete_confirm", "stored") =>
        /\ last.user \in ADMIN_IDS \/ last.user = Was.created_by
        /\ Rec.status = STATUS_PENDING
        /\ Rec.approved_by = NoneId
        /\ Rec.approved_at = NoneTime
        /\ Rec.moderator_note = NoneText

\* C7 amended: a resubmission is stored only for the creator or an
\* administrator (anyone else is denied and nothing is written); it leaves
\* status pending, approved_by and approved_at null, and moderator_note set to
\* the fixed resubmission note.
C7_ResubmitResetsModeration ==
    /\ Did("delete_confirm", "stored") =>
        /\ last.user \in ADMIN_IDS \/ last.user = Was.created_by
        /\ Rec.status = STATUS_PENDING
        /\ Rec.approved_by = NoneId
        /\ Rec.approved_at = NoneTime
        /\ Rec.moderator_note = NOTE_RESUBMITTED
    /\ (Did("delete_confirm", "denied") /\ last.event \in DOMAIN store) =>
        /\ last.user \notin ADMIN_IDS /\ last.user # Doc.created_by
        /\ Doc = last.before

C7_Witness ==
    /\ Did("delete_confirm", "stored")
    /\ last.user \notin ADMIN_IDS
    /\ last.before.status = STATUS_REJECTED
    /\ last.before.approved_by # NoneId
    /\ Rec.approved_by = NoneId

\* C8: the record a wizard submit inserts is new in the table, has the id the
\* table assigned, status pending, created_by the submitting user, and
\* created_at equal to updated_at (both set).
C8_SubmitInserts ==
    Did("submit", "sent_to_moderation") =>
        /\ last.before = BlankDoc
        /\ last.event = Len(store)
        /\ Rec.id = last.event
        /\ Rec.status = STATUS_PENDING
        /\ Rec.created_by = last.user
        /\ Rec.created_at # NoneTime
        /\ Rec.created_at = Rec.updated_at

C8_Witness ==
    /\ Did("submit", "sent_to_moderation")
    /\ last.user \notin ADMIN_IDS
    /\ Rec.created_at = MaxClock
    /\ Rec.tags = <<"master">>

\* the table after signup(u), and after signoff(u), on event e at time now
AfterSignup(table, u, e, now) ==
    [table EXCEPT ![e] =
        update(table, e, [attendees |-> signup_attendees(get(table, e), u)], now)]

AfterSignoff(table, u, e, now) ==
    [table EXCEPT ![e] =
        update(table, e, [attendees |-> signoff_attendees(get(table, e), u)], now)]

Without(seq, u) == SelectSeq(seq, LAMBDA x : x # u)

\* C9: on an approved event, for a user who is not registered, signup then
\* signoff gives back the attendees as they were; a stored signup appends the
\* user and a stored signoff removes the user; a signoff by a user who is not
\* registered writes nothing and is answered "not registered".
C9_SignupSignoffRoundTrip ==
    /\ \A e \in DOMAIN store, u \in Users, t1 \in clock..MaxClock, t2 \in clock..MaxClock :
          (get(store, e).status = STATUS_APPROVED /\ ~is_user_registered(get(store, e), u))
              => get(AfterSignoff(AfterSignup(store, u, e, t1), u, e, t2), e).attendees
                    = get(store, e).attendees
    /\ Did("signup", "signed_up") => Rec.attendees = Was.attendees \o <<last.user>>
    /\ Did("signoff", "signed_off") => Rec.attendees = Without(Was.attendees, last.user)
    /\ (last.h = "signoff" /\ last.event \in DOMAIN store
            /\ \A i \in DOMAIN Was.attendees : Was.attendees[i] # last.user)
          => last.out = "not_registered" /\ Doc = last.before

C9_Witness ==
    /\ Did("signoff", "signed_off")
    /\ Rec.status = STATUS_APPROVED
    /\ Len(Was.attendees) = 3
    /\ Was.attendees[2] = last.user
    /\ Rec.attendees = <<Was.attendees[1], Was.attendees[3]>>

\* C10: a signup is stored only on an approved event, and on a pending or
\* rejected event it is refused with the attendees unchanged; a signoff by a
\* registered user is stored whatever the status and removes that user only.
C10_SignupNeedsApproved ==
    /\ Did("signup", "signed_up") => Was.status = STATUS_APPROVED
    /\ (last.h = "signup" /\ last.event \in DOMAIN store /\ Was.status # STATUS_APPROVED)
          => last.out = "unavailable" /\ Doc = last.before
    /\ (last.h = "signoff" /\ last.event \in DOMAIN store
            /\ \E i \in DOMAIN Was.attendees : Was.attendees[i] = last.user)
          => /\ last.out = "signed_off"
             /\ Rec.attendees = Without(Was.attendees, last.user)
             /\ Rec.status = Was.status

C10_Witness ==
    /\ Did("signoff", "signed_off")
    /\ Was.status = STATUS_REJECTED
    /\ Len(Was.attendees) = 2
    /\ Len(Rec.attendees) = 1

NoDuplicates(seq) == \A i, j \in DOMAIN seq : i # j => seq[i] # seq[j]

\* C11: whatever signups, signoffs and resubmissions are handled, in whatever
\* order and by whichever users (a user's second signup included), no user id
\* occurs twice in an event's attendees, in the table and as get reads it.
C11_AttendeesUnique ==
    \A e \in DOMAIN store :
        NoDuplicates(store[e].attendees) /\ NoDuplicates(get(store, e).attendees)

C11_Witness ==
    /\ Did("signup", "already_registered")
    /\ Len(Doc.attendees) = 3
    /\ Doc.attendees[1] = last.user

\* a stored signup that left out a user who was registered before it
LostUpdate ==
    /\ Did("signup", "signed_up")
    /\ \E i \in DOMAIN Was.attendees :
          \A j \in DOMAIN Rec.attendees : Rec.attendees[j] # Was.attendees[i]

\* C12 as stated: signups of different users on an approved event can run so
\* that the later write drops the earlier user, whose signup was reported
\* stored; that is, some run of the handlers reaches a lost update.
C12_LostUpdateReachable == <>LostUpdate

\* C12 amended: a signup reads and writes the record without suspending in
\* between, so a stored signup keeps every user registered before it and adds
\* its own; the attendees change only by a signup adding its user, a signoff
\* removing its user, or a resubmission emptying the list.
C12_SignupKeepsEarlier ==
    /\ ~LostUpdate
    /\ (last.event \in DOMAIN store /\ last.before.id # NoneId) =>
          \/ Doc.attendees = last.before.attendees
          \/ Did("signup", "signed_up")
                /\ Doc.attendees = Append(last.before.attendees, last.user)
          \/ Did("signoff", "signed_off")
                /\ Doc.attendees = Without(last.before.attendees, last.user)
          \/ Did("delete_confirm", "stored") /\ Doc.attendees = <<>>

C12_Witness ==
    /\ Did("signup", "signed_up")
    /\ Len(Was.attendees) = 1
    /\ Was.attendees[1] # last.user
    /\ Rec.attendees = <<Was.attendees[1], last.user>>
    /\ Rec.status = STATUS_APPROVED

\* the rule of the listing as the claim words it
VisibleAsStated(event, viewer, track) ==
    \/ viewer \in ADMIN_IDS
    \/ viewer = event.created_by
    \/ /\ event.status = STATUS_APPROVED
       /\ \/ event.tags = <<>>
          \/ \E i \in DOMAIN event.tags : event.tags[i] = "all"
          \/ track \in {"bachelor", "master", "postgraduate"}
                /\ \E i \in DOMAIN event.tags : event.tags[i] = track

Listed(e) == \E i \in DOMAIN last.visible : last.visible[i] = e

C14_DetailsGatedByVisibility ==
    Did("details", "shown") =>
        \A track \in Tracks :
            event_visible_for_user(Rec, [tg_id |-> last.user, track |-> track])

\* the handlers whose "stored" outcome is a write of content, tags or link
EditWrites ==
    {"edit_title", "edit_date", "edit_start_time", "edit_end_time", "edit_location",
     "edit_description", "edit_link", "edit_tags_done"}

\* C15: a store write that changes content fields, tags or the registration
\* link, or resubmits the event, and a participant list that is shown, is done
\* only for an administrator or the creator of the event written or shown; the
\* tag commit, which takes the event id from its callback data, included.
C15_OnlyManagersWrite ==
    /\ (last.out = "stored" /\ last.h \in EditWrites \cup {"delete_confirm"})
          => (last.user \in ADMIN_IDS \/ last.user = Was.created_by)
    /\ Did("participants", "shown")
          => (last.user \in ADMIN_IDS \/ last.user = Rec.created_by)

\* the stored key a single-field edit commits
EditedKey(h) ==
    CASE h = "edit_title" -> "title"
      [] h = "edit_location" -> "location"
      [] h = "edit_description" -> "short_description"
      [] h = "edit_link" -> "registration_link"
      [] h = "edit_tags_done" -> "tags"

SingleFieldEdits ==
    {"edit_title", "edit_location", "edit_description", "edit_link", "edit_tags_done"}

\* the frame of a single-field edit, the alias scheduled_at left aside
EditFrame ==
    (last.h \in SingleFieldEdits /\ last.out = "stored") =>
        \A k \in DOMAIN Rec \ {EditedKey(last.h), "updated_at", "scheduled_at"} : Rec[k] = Was[k]

\* C16: an edit that commits the title, the location, the description, the
\* registration link or the tags leaves every field of the stored record but
\* that one and updated_at as it was before the edit: status, attendees, the
\* other content fields (the alias scheduled_at among them), created_by,
\* created_at, the moderation fields and id.
C16_EditChangesOneField ==
    /\ EditFrame
    /\ (last.h \in SingleFieldEdits /\ last.out = "stored") =>
        /\ Rec.scheduled_at = Was.scheduled_at
        /\ \A k \in {"title", "starts_at", "ends_at", "scheduled_at", "location", "tags",
                     "status", "attendees", "created_by", "created_at", "approved_by",
                     "approved_at", "moderator_note", "moderation_messages", "id"}
                    \ {EditedKey(last.h)} :
              Doc[k] = last.before[k]

\* C17: in every stored record whose starts_at is set, scheduled_at equals
\* starts_at, whatever inserts and updates (edits of the date and of the start
\* time among them) came before.
C17_ScheduledMirrorsStart ==
    \A e \in DOMAIN store :
        store[e].starts_at # NoTime => store[e].scheduled_at = store[e].starts_at

\* every stored record carries both stamps
StampsSet ==
    \A e \in DOMAIN store :
        store[e].created_at # NoneTime /\ store[e].updated_at # NoneTime

\* the outcomes of the handlers' store writes
WriteOuts == {"stored", "signed_up", "signed_off", "sent_to_moderation"}

\* one step: a stored record keeps its id and created_at, a record the step
\* changed or wrote carries the time of the step in updated_at, and a record
\* the step inserted gets its row number as id and the time in both stamps
StampsKept ==
    /\ \A e \in DOMAIN store :
          /\ e \in DOMAIN store'
          /\ store'[e].id = store[e].id
          /\ store'[e].created_at = store[e].created_at
          /\ store'[e] # store[e] => store'[e].updated_at = clock
    /\ \A e \in DOMAIN store' \ DOMAIN store :
          /\ store'[e].id = e
          /\ store'[e].created_at = clock
          /\ store'[e].updated_at = clock
    /\ (clock' = clock /\ last'.out \in WriteOuts /\ last'.event \in DOMAIN store')
          => store'[last'.event].updated_at = clock

\* C18: every stored record has non-empty created_at and updated_at; the
\* created_at and the id of an event never change after its insertion, whatever
\* edits, approvals, rejections, resubmissions, signups and signoffs follow; and
\* each of these writes stamps updated_at with the time of the write.
C18_StampsAndIdentity == []StampsSet /\ [][StampsKept]_vars

C18_Witness ==
    /\ last.h = "edit_title" /\ last.out = "stored"
    /\ Doc.id = 1
    /\ Doc.created_at = 1
    /\ Doc.updated_at = MaxClock
    /\ Doc.status = STATUS_APPROVED
    /\ Doc.attendees # <<>>
    /\ last.before.updated_at = 1

\* C19: after any insert or update of the store, every tag of every stored
\* record is a slug of the fixed vocabulary.
C19_StoredTagsKnown ==
    \A e \in DOMAIN store : \A i \in DOMAIN store[e].tags : store[e].tags[i] \in Vocabulary

\* one step of user u's session, a being its state before and b after: the
\* state changes only by a start (to the first step), by an accepted input (to
\* the next step), by back (to the previous step, or to no session from the
\* first step) or by a submit in the confirmation step (to no session)
WizardMove(u) ==
    LET a == session[u].state
        b == session'[u].state
        h == last'.h
        out == last'.out
        index == _state_index(a)
    IN  /\ a # b =>
              \/ h = "start_creation" /\ b = CREATION_SEQUENCE[1]
              \/ /\ h \in {"creation_text", "tags_done"} /\ out = "accepted"
                 /\ index \in 1..(Len(CREATION_SEQUENCE) - 1)
                 /\ b = CREATION_SEQUENCE[index + 1]
              \/ h = "back" /\ index > 1 /\ b = CREATION_SEQUENCE[index - 1]
              \/ h = "back" /\ index = 1 /\ b = "none"
              \/ h = "submit" /\ a = "confirm" /\ b = "none"
        /\ (last'.user = u /\ h \in {"creation_text", "tags_done"} /\ out = "accepted") =>
              /\ index \in 1..(Len(CREATION_SEQUENCE) - 1)
              /\ b = CREATION_SEQUENCE[index + 1]
        /\ (last'.user = u /\ h = "back") =>
              b = IF index > 1 THEN CREATION_SEQUENCE[index - 1] ELSE "none"
        /\ (last'.user = u /\ h = "submit" /\ out = "sent_to_moderation") => a = "confirm"

\* C20: the step of the creation wizard moves along title, date, start time,
\* end time, location, description, tag selection, confirmation: an accepted
\* input moves it to exactly the next step, back to exactly the previous step
\* (from the first step it ends the session), no step is skipped, and a submit
\* is accepted only in the confirmation step.
C20_WizardOrder == [][\A u \in Creators : WizardMove(u)]_vars

C20_Witness ==
    /\ last.h = "back" /\ last.user = 2
    /\ last.from = "confirm"
    /\ session[2].state = "tags"
    /\ session[2].data.title = "Talk"
    /\ session[2].data.event_date = 10
    /\ session[2].data.start_time = 18
    /\ session[2].data.end_time = 20
    /\ session[2].data.location # ""
    /\ session[2].data.short_description # ""

\* the answers of a refused input: of the wizard, and of the field edit
WizardErrors == {"empty", "bad_date", "bad_time", "end_before_start"}
EditErrors == {"empty", "format", "end_before_start", "start_after_end"}

\* one step that refuses an input: the table is left alone, the user's session
\* stays in its state with every field as it was, and in the wizard the error
\* note, and nothing else, is recorded
RefusedKeeps ==
    LET u == last'.user
        refusedWizard == last'.h = "creation_text" /\ last'.out \in WizardErrors
        refusedEdit == last'.h \in {"edit_title", "edit_date", "edit_end_time"}
                       /\ last'.out \in EditErrors
    IN  /\ refusedWizard =>
              /\ store' = store
              /\ session'[u].state = session[u].state
              /\ DOMAIN session'[u].data = DOMAIN session[u].data \cup {"error"}
              /\ \A k \in DOMAIN session[u].data \ {"error"} :
                    session'[u].data[k] = session[u].data[k]
              /\ session'[u].data.error = last'.out
        /\ refusedEdit =>
              /\ store' = store
              /\ session'[u] = session[u]

\* C21: an input that fails validation (the empty text, a date or a time that
\* does not parse, an end time not after the start time) leaves the wizard on
\* its step with every collected field as it was, records only the error note
\* and writes nothing to the store; a refused field input of the edit likewise
\* leaves state, session and store as they were.
C21_RefusedInputKeeps == [][RefusedKeeps]_vars

C21_Witness ==
    /\ last.h = "creation_text" /\ last.out = "end_before_start"
    /\ session[2].state = "end_time"
    /\ session[2].data.title = "Talk"
    /\ session[2].data.event_date = 10
    /\ session[2].data.start_time = 18
    /\ session[2].data.end_time = 0
    /\ session[2].data.error = "end_before_start"
    /\ store # <<>>

\* the session key a wizard step collects, and the value of a key not collected
StepKey(state_name) ==
    CASE state_name = "title" -> "title"
      [] state_name = "date" -> "event_date"
      [] state_name = "start_time" -> "start_time"
      [] state_name = "end_time" -> "end_time"
      [] state_name = "location" -> "location"
      [] state_name = "description" -> "short_description"

\* C22: after a step back in the wizard the session no longer holds the fields
\* collected at and after the step returned to (after going back from the end
\* time to the start time: neither a start time nor an end time).
C22_BackDiscards ==
    (last.h = "back" /\ last.out = "back") =>
        \A state_name \in TextSteps :
            _state_index(state_name) >= _state_index(session[last.user].state) =>
                session[last.user].data[StepKey(state_name)] = BlankData[StepKey(state_name)]

\* the selection a user's session holds: of the wizard, and of the edit
Selected(u) == AsSet(session[u].data.tags)
EditSelected(u) == AsSet(edit_tags_of(u))

\* one step of the tag selection.  A commit of an empty selection is refused
\* and leaves the session's state and the table as they were; a record a
\* submit or a tag commit writes has a tag; a toggle leaves a non-empty
\* selection non-empty.
TagStep ==
    LET u == last'.user
        h == last'.h
        out == last'.out
    IN  /\ (h = "tags_done" /\ session[u].data.tags = <<>>) => out = "none_selected"
        /\ (h = "edit_tags_done" /\ normalize_tags(EditSelected(u)) = <<>>)
              => out = "none_selected"
        /\ (h \in {"tags_done", "edit_tags_done"} /\ out = "none_selected") =>
              /\ session'[u].state = session[u].state
              /\ store' = store
        /\ (h = "submit" /\ out = "sent_to_moderation") => store'[last'.event].tags # <<>>
        /\ (h = "edit_tags_done" /\ out = "stored") => store'[last'.event].tags # <<>>
        /\ (h = "toggle_tag" /\ Selected(u) # {}) => AsSet(session'[u].data.tags) # {}
        /\ (h = "edit_tags_toggle" /\ EditSelected(u) # {})
              => AsSet(session'[u].data.edit_tags) # {}

\* C23: a tag commit with no tag selected is refused in the wizard and in the
\* edit and leaves the step of the session and the stored tags as they were;
\* every record written by a submit of the wizard or by a tag commit of the
\* edit has at least one tag; a toggle never removes the last selected tag.
C23_TagCommitNeedsTag == [][TagStep]_vars

C23_Witness ==
    /\ last.h = "edit_tags_done" /\ last.out = "none_selected"
    /\ session[2].state = "edit_tags"
    /\ edit_tags_of(2) = <<>>
    /\ store[1].tags = <<LEGACY_TAG_ALL>>

\* ------------------------------------------------- background services
\* The two tasks main() creates: tasks[1] runs run_daily_notifications,
\* tasks[2] ThermometerService.run.  clock is the local wall time (Europe/Moscow,
\* a fixed offset) in seconds since 00:00 of day 0; it passes only while a task
\* sleeps, the store calls and the sends of a sweep take none.  An event's
\* start <<date, hour>> has the day number as its date.
DAY == 86400
TARGET == 72000
MIN_WAIT == 60
BACKOFF == 300
TICK == 60
MaxDays == 3

DayOf(t) == t \div DAY

\* a service task suspended at an await: pc is the await ("start" before its
\* first step), wake_at the end of its sleep, queue the users_events items
\* still to send, cancel whether task.cancel() was called
ServiceTask(h) ==
    [h |-> h, pc |-> "start", wake_at |-> 0, queue |-> <<>>, cancel |-> FALSE]

background_tasks == <<ServiceTask("run_daily_notifications"), ServiceTask("run")>>

Ended == {"cancelled", "failed"}

\* mutant: a pending cancellation is never delivered
interrupted_never(t) == FALSE

\* task.cancel() was called: the task's next step raises CancelledError
interrupted(t) == t.cancel

\* mutant: the target is today's 20:00 even when that has passed
target_time_today(now) == DayOf(now) * DAY + TARGET

target_time(now) ==
    LET today == DayOf(now) * DAY + TARGET
    IN  IF now >= today THEN today + DAY ELSE today

wait_seconds(now) ==
    IF target_time(now) - now > MIN_WAIT THEN target_time(now) - now ELSE MIN_WAIT

\* mutant: the selection ignores the status
_events_for_tomorrow_any_status(table, tomorrow_date) ==
    SelectSeq(list_all(table),
              LAMBDA event : /\ scheduled_datetime(event) # NoTime
                             /\ scheduled_datetime(event)[1] = tomorrow_date)

_events_for_tomorrow(table, tomorrow_date) ==
    SelectSeq(list_all(table),
              LAMBDA event : /\ event.status = STATUS_APPROVED
                             /\ scheduled_datetime(event) # NoTime
                             /\ scheduled_datetime(event)[1] = tomorrow_date)

Range(seq) == {seq[k] : k \in DOMAIN seq}

\* sorted(user_events, key=start): a stable insertion sort
RECURSIVE sorted(_)
sorted(events) ==
    IF events = <<>> THEN <<>>
    ELSE LET done == sorted(SubSeq(events, 1, Len(events) - 1))
             item == events[Len(events)]
             at == scheduled_datetime(item)
             before == SelectSeq(done, LAMBDA e :
                           \/ scheduled_datetime(e)[1] < at[1]
                           \/ /\ scheduled_datetime(e)[1] = at[1]
                              /\ scheduled_datetime(e)[2] <= at[2])
             after == SelectSeq(done, LAMBDA e :
                           \/ scheduled_datetime(e)[1] > at[1]
                           \/ /\ scheduled_datetime(e)[1] = at[1]
                              /\ scheduled_datetime(e)[2] > at[2])
         IN  before \o <<item>> \o after

RECURSIVE Ascending(_)
Ascending(S) ==
    IF S = {} THEN <<>>
    ELSE LET m == CHOOSE x \in S : \A y \in S : x <= y
         IN  <<m>> \o Ascending(S \ {m})

\* the keys of users_events in insertion order: the events in list_all order,
\* the attendees of one event as the set of small ints iterates (ascending)
RECURSIVE KeysOf(_, _)
KeysOf(events, seen) ==
    IF events = <<>> THEN <<>>
    ELSE LET fresh == Range(Head(events).attendees) \ seen
         IN  Ascending(fresh) \o KeysOf(Tail(events), seen \cup fresh)

\* users_events as the list of messages to send: one item per user, with the
\* ids of the user's events in the order of the message's blocks
users_events(events) ==
    LET keys == KeysOf(events, {})
    IN  [k \in DOMAIN keys |->
            LET mine == sorted(SelectSeq(events, LAMBDA e : keys[k] \in Range(e.attendees)))
            IN  [to |-> keys[k], events |-> [j \in DOMAIN mine |-> mine[j].id]]]

\* mutant: a failed delivery ends the loop over users_events
remaining_aborts(queue, delivered) == IF delivered THEN Tail(queue) ELSE <<>>

\* the items the for loop still visits after one send_message
remaining(queue, delivered) == Tail(queue)

\* what a step of a background task leaves in last: started is the time the
\* scheduler started at, sweeps the sweeps begun so far (day and time of day),
\* tomorrow the date of the sweep in progress, attempts its send_message calls,
\* failed the date of the last sweep if its selection raised
ServiceOutcome(i, out, to, upd) ==
    Merge([last EXCEPT !.h = tasks[i].h, !.out = out, !.to = to], upd)

NoHistory ==
    [h |-> "init", user |-> NoneId, event |-> NoneId, out |-> "", to |-> NoneId,
     before |-> BlankDoc, started |-> clock, sweeps |-> <<>>, tomorrow |-> NoneId,
     attempts |-> <<>>, failed |-> NoneId]

\* run_daily_notifications from the top of its loop to await asyncio.sleep
Sleeping(t, now) == [t EXCEPT !.pc = "sleep", !.wake_at = now + wait_seconds(now),
                              !.queue = <<>>]

run_daily_notifications(i) ==
    /\ tasks[i].h = "run_daily_notifications"
    /\ tasks[i].pc = "start"
    /\ ~interrupted(tasks[i])
    /\ tasks' = [tasks EXCEPT ![i] = Sleeping(@, clock)]
    /\ last' = ServiceOutcome(i, "sleeping", NoneId, [started |-> clock])
    /\ UNCHANGED <<store, clock, session, nextMessageId>>

\* timers fire in the order of their deadlines; the last one fires within two
\* back-off delays of the 20:00 of the last day
NextTimer(i) ==
    /\ tasks[i].pc \in {"sleep", "backoff"}
    /\ tasks[i].wake_at < (MaxDays - 1) * DAY + TARGET + 2 * BACKOFF
    /\ \A j \in DOMAIN tasks :
           tasks[j].pc \in {"sleep", "backoff"} => tasks[i].wake_at <= tasks[j].wake_at

\* the sleep is over: send_tomorrows_reminders up to its first send_message.
\* list_all may raise (store unreachable); the handler of the loop then awaits
\* the back-off sleep.
send_tomorrows_reminders(i) ==
    /\ tasks[i].h = "run_daily_notifications"
    /\ tasks[i].pc = "sleep"
    /\ ~interrupted(tasks[i])
    /\ NextTimer(i)
    /\ clock' = tasks[i].wake_at
    /\ UNCHANGED <<store, session, nextMessageId>>
    /\ LET now == tasks[i].wake_at
           tomorrow == DayOf(now) + 1
           events == _events_for_tomorrow(store, tomorrow)
           items == users_events(events)
           begun == [sweeps |-> Append(last.sweeps, [day |-> DayOf(now), at |-> now % DAY]),
                     tomorrow |-> tomorrow, attempts |-> <<>>, failed |-> NoneId]
       IN  \/ /\ tasks' = [tasks EXCEPT ![i] = [@ EXCEPT !.pc = "backoff",
                                                        !.wake_at = now + BACKOFF]]
              /\ last' = ServiceOutcome(i, "selection_failed", NoneId,
                                        [begun EXCEPT !.failed = tomorrow])
           \/ /\ events = <<>>
              /\ tasks' = [tasks EXCEPT ![i] = Sleeping(@, now)]
              /\ last' = ServiceOutcome(i, "no_events", NoneId, begun)
           \/ /\ events # <<>>
              /\ items = <<>>
              /\ tasks' = [tasks EXCEPT ![i] = Sleeping(@, now)]
              /\ last' = ServiceOutcome(i, "no_attendees", NoneId, begun)
           \/ /\ items # <<>>
              /\ tasks' = [tasks EXCEPT ![i] = [@ EXCEPT !.pc = "send_message",
                                                        !.queue = items]]
              /\ last' = ServiceOutcome(i, "selected", NoneId, begun)

\* one bot.send_message of the sweep returns or raises; after the last one
\* the loop of run_daily_notifications goes to sleep again
send_tomorrows_reminders_step(i) ==
    /\ tasks[i].h = "run_daily_notifications"
    /\ tasks[i].pc = "send_message"
    /\ ~interrupted(tasks[i])
    /\ UNCHANGED <<store, clock, session, nextMessageId>>
    /\ \E delivered \in BOOLEAN :
         LET item == Head(tasks[i].queue)
             rest == remaining(tasks[i].queue, delivered)
             attempt == [to |-> item.to, events |-> item.events, delivered |-> delivered]
             tried == [attempts |-> Append(last.attempts, attempt)]
         IN  /\ tasks' = [tasks EXCEPT ![i] =
                            IF rest = <<>> THEN Sleeping(@, clock)
                            ELSE [@ EXCEPT !.queue = rest]]
             /\ last' = ServiceOutcome(i, IF rest = <<>> THEN "sweep_done"
                                          ELSE IF delivered THEN "sent" ELSE "send_failed",
                                       item.to, tried)

\* the back-off sleep is over: the loop starts again from its top
run_daily_notifications_retry(i) ==
    /\ tasks[i].h = "run_daily_notifications"
    /\ tasks[i].pc = "backoff"
    /\ ~interrupted(tasks[i])
    /\ NextTimer(i)
    /\ clock' = tasks[i].wake_at
    /\ tasks' = [tasks EXCEPT ![i] = Sleeping(@, tasks[i].wake_at)]
    /\ last' = ServiceOutcome(i, "sleeping", NoneId, [to |-> NoneId])
    /\ UNCHANGED <<store, session, nextMessageId>>

\* the users a tick finds due, in the order of db.users.find()
DueLists == {<<>>, <<2>>, <<2, 3>>}

\* _tick at time now up to its first send_message: db.users.find() may raise,
\* which ends run (it catches CancelledError only); with nobody due run goes
\* on to await asyncio.sleep(60)
Ticking(t, now) == [t EXCEPT !.pc = "sleep", !.wake_at = now + TICK, !.queue = <<>>]

_tick(i, now) ==
    \/ /\ tasks' = [tasks EXCEPT ![i] = [@ EXCEPT !.pc = "failed", !.queue = <<>>]]
       /\ last' = ServiceOutcome(i, "store_failed", NoneId, [to |-> NoneId])
    \/ \E due \in DueLists :
         /\ tasks' = [tasks EXCEPT ![i] =
                        IF due = <<>> THEN Ticking(@, now)
                        ELSE [@ EXCEPT !.pc = "send_message", !.queue = due]]
         /\ last' = ServiceOutcome(i, "ticked", NoneId, [to |-> NoneId])

run(i) ==
    /\ tasks[i].h = "run"
    /\ tasks[i].pc = "start"
    /\ ~interrupted(tasks[i])
    /\ _tick(i, clock)
    /\ UNCHANGED <<store, clock, session, nextMessageId>>

run_tick(i) ==
    /\ tasks[i].h = "run"
    /\ tasks[i].pc = "sleep"
    /\ ~interrupted(tasks[i])
    /\ NextTimer(i)
    /\ clock' = tasks[i].wake_at
    /\ _tick(i, tasks[i].wake_at)
    /\ UNCHANGED <<store, session, nextMessageId>>

\* bot.send_message of _send_thermometer_message returns or raises; after the
\* last due user run awaits asyncio.sleep(60)
_send_thermometer_message(i) ==
    /\ tasks[i].h = "run"
    /\ tasks[i].pc = "send_message"
    /\ ~interrupted(tasks[i])
    /\ UNCHANGED <<store, clock, session, nextMessageId>>
    /\ \E delivered \in BOOLEAN :
         LET rest == Tail(tasks[i].queue)
         IN  /\ tasks' = [tasks EXCEPT ![i] =
                            IF rest = <<>> THEN Ticking(@, clock)
                            ELSE [@ EXCEPT !.queue = rest]]
             /\ last' = ServiceOutcome(i, IF delivered THEN "sent" ELSE "send_failed",
                                       Head(tasks[i].queue), [to |-> Head(tasks[i].queue)])

\* the finally block of main: task.cancel() for both tasks, then gather
main ==
    /\ \E i \in DOMAIN tasks : tasks[i].pc \notin Ended /\ ~tasks[i].cancel
    /\ tasks' = [i \in DOMAIN tasks |-> [tasks[i] EXCEPT !.cancel = TRUE]]
    /\ last' = [last EXCEPT !.h = "main", !.out = "cancel", !.to = NoneId]
    /\ UNCHANGED <<store, clock, session, nextMessageId>>

\* CancelledError is raised at the await the task is suspended in; neither
\* service catches it without raising it again
CancelledError(i) ==
    /\ interrupted(tasks[i])
    /\ tasks[i].pc \notin Ended
    /\ tasks' = [tasks EXCEPT ![i] = [@ EXCEPT !.pc = "cancelled", !.queue = <<>>]]
    /\ last' = ServiceOutcome(i, "cancelled", NoneId, [to |-> NoneId])
    /\ UNCHANGED <<store, clock, session, nextMessageId>>

\* the event tables a sweep may find: each event is created, moderated and
\* signed up for through the store
SweepKinds ==
    <<[status |-> STATUS_APPROVED, starts |-> <<1, 18>>, attendees |-> <<2, 3>>],
      [status |-> STATUS_APPROVED, starts |-> <<1, 12>>, attendees |-> <<2>>],
      [status |-> STATUS_PENDING, starts |-> <<1, 15>>, attendees |-> <<>>],
      [status |-> STATUS_APPROVED, starts |-> <<2, 12>>, attendees |-> <<3>>],
      [status |-> STATUS_REJECTED, starts |-> <<1, 9>>, attendees |-> <<2>>],
      [status |-> STATUS_APPROVED, starts |-> <<1, 20>>, attendees |-> <<>>],
      [status |-> STATUS_APPROVED, starts |-> <<2, 9>>, attendees |-> <<2, 3>>]>>

SweepDoc(table, kind) ==
    LET data == [(CHOOSE c \in ConfirmSessions(2) : TRUE).data
                    EXCEPT !.event_date = kind.starts[1], !.start_time = kind.starts[2],
                           !.end_time = kind.starts[2] + 1]
        made == Append(table, insert(table, creation_payload(2, data), 1))
        id == Len(made)
        approved == [made EXCEPT ![id] = update(made, id, approve_updates(1, 1), 1)]
        joined == IF kind.attendees = <<>> THEN made
                  ELSE [approved EXCEPT ![id] =
                           update(approved, id, [attendees |-> kind.attendees], 1)]
    IN  IF kind.status = STATUS_PENDING THEN made
        ELSE IF kind.status = STATUS_APPROVED
        THEN (IF kind.attendees = <<>> THEN approved ELSE joined)
        ELSE [joined EXCEPT ![id] = update(joined, id, reject_updates(1, 1), 1)]

SweepTables ==
    {SweepDoc(SweepDoc(SweepDoc(<<>>, SweepKinds[a]), SweepKinds[b]), SweepKinds[c]) :
        a \in DOMAIN SweepKinds, b \in DOMAIN SweepKinds \ {1}, c \in DOMAIN SweepKinds \ {2}}

\* the times of day 0 the scheduler may start at: 00:00, 19:59:30, 20:00, 20:30
StartTimes == {0, TARGET - 30, TARGET, TARGET + 1800}

InitSweep ==
    /\ store \in SweepTables
    /\ clock \in StartTimes
    /\ session = [u \in Users |-> NoSession]
    /\ tasks = <<background_tasks[1]>>
    /\ nextMessageId = 1
    /\ last = NoHistory

NextSweep ==
    \/ run_daily_notifications(1)
    \/ send_tomorrows_reminders(1)
    \/ send_tomorrows_reminders_step(1)
    \/ run_daily_notifications_retry(1)

SpecSweep == InitSweep /\ [][NextSweep]_vars

\* ------------------------------------------------------- reminder sweeps
\* the events user_id should be reminded of for the date tomorrow
Matching(user_id, tomorrow) ==
    {e \in DOMAIN store : /\ get(store, e).status = STATUS_APPROVED
                          /\ get(store, e).starts_at # NoTime
                          /\ get(store, e).starts_at[1] = tomorrow
                          /\ user_id \in Range(get(store, e).attendees)}

Chronological(events) ==
    \A a, b \in DOMAIN events :
        a < b => get(store, events[a]).starts_at[2] <= get(store, events[b]).starts_at[2]

Recipients(attempts) == {attempts[k].to : k \in DOMAIN attempts}

\* C24: in one sweep every message goes to a user with at least one approved
\* event starting the day after the sweep and lists exactly that user's
\* matching events in chronological order, no user gets two messages, and
\* when the sweep is over exactly the users with a matching event were sent
\* a message (a sweep that sends nothing had no such user)
C24_ReminderRecipients ==
    LET attempts == last.attempts
    IN  /\ \A k \in DOMAIN attempts :
              /\ Matching(attempts[k].to, last.tomorrow) # {}
              /\ Range(attempts[k].events) = Matching(attempts[k].to, last.tomorrow)
              /\ Len(attempts[k].events) = Cardinality(Matching(attempts[k].to, last.tomorrow))
              /\ Chronological(attempts[k].events)
        /\ \A j, k \in DOMAIN attempts : j # k => attempts[j].to # attempts[k].to
        /\ last.out = "sweep_done" =>
              Recipients(attempts) = {u \in Users : Matching(u, last.tomorrow) # {}}
        /\ last.out \in {"no_events", "no_attendees"} =>
              {u \in Users : Matching(u, last.tomorrow) # {}} = {}

\* a finished sweep with two recipients, one of them with two events listed
\* against the order of their ids, while a rejected event of that date has
\* an attendee
C24_Witness ==
    /\ last.out = "sweep_done"
    /\ Len(last.attempts) = 2
    /\ \E k \in DOMAIN last.attempts :
          /\ Len(last.attempts[k].events) = 2
          /\ last.attempts[k].events[1] < last.attempts[k].events[2]
    /\ \E e \in DOMAIN store :
          /\ store[e].status = STATUS_REJECTED
          /\ get(store, e).starts_at[1] = last.tomorrow
          /\ get(store, e).attendees # <<>>

Expected(tomorrow) == {u \in Users : Matching(u, tomorrow) # {}}

\* C25: once a delivery of a sweep has failed, every recipient of that sweep
\* has either been tried or is still to be tried, and the sweep ends as a
\* finished sweep with the scheduler asleep until the next one
C25_FailedDeliveryContinues ==
    (\E k \in DOMAIN last.attempts : ~last.attempts[k].delivered) =>
        /\ tasks[1].pc \in {"send_message", "sleep"}
        /\ Recipients(last.attempts) \cup Recipients(tasks[1].queue) = Expected(last.tomorrow)
        /\ tasks[1].pc = "sleep" => last.out = "sweep_done"

\* a finished sweep whose first delivery failed and whose second succeeded
C25_Witness ==
    /\ last.out = "sweep_done"
    /\ Len(last.attempts) = 2
    /\ ~last.attempts[1].delivered
    /\ last.attempts[2].delivered
    /\ tasks[1].pc = "sleep"

\* C26: after a sweep whose selection raised, the scheduler is still running
\* and the sweep it next sleeps towards is for the same date as the failed one
C26_RetrySameTomorrow ==
    last.failed # NoneId =>
        /\ tasks[1].pc \in {"backoff", "sleep"}
        /\ tasks[1].pc = "sleep" => DayOf(tasks[1].wake_at) + 1 = last.failed

\* ---------------------------------------------------- the daily rhythm
\* no day has two sweeps and every sweep begins at or after 20:00
SweepsApart ==
    /\ \A j, k \in DOMAIN last.sweeps : j # k => last.sweeps[j].day # last.sweeps[k].day
    /\ \A k \in DOMAIN last.sweeps : last.sweeps[k].at >= TARGET

\* while the scheduler sleeps towards its next sweep, every day from first
\* to the day before that sweep has had one
SweptSince(first) ==
    tasks[1].pc = "sleep" =>
        \A d \in first..(DayOf(tasks[1].wake_at) - 1) :
            \E k \in DOMAIN last.sweeps : last.sweeps[k].day = d

\* the first day whose 20:00 comes after the start of the scheduler
FirstTarget ==
    IF last.started % DAY < TARGET THEN DayOf(last.started) ELSE DayOf(last.started) + 1

\* C27 as stated: one sweep on every calendar day from the day the scheduler
\* was started on, at or after 20:00, whatever the time of day of the start
C27_OneSweepEveryDay == SweepsApart /\ SweptSince(DayOf(last.started))

\* C27: one sweep, at or after 20:00, on every calendar day from the first
\* day whose 20:00 comes after the start of the scheduler; a scheduler started
\* at 20:00 or later does not sweep on the day of its start
C27_OneSweepPerDaySinceTarget == SweepsApart /\ SweptSince(FirstTarget)

\* a scheduler started after 20:00 that has begun its second sweep
C27_Witness ==
    /\ last.started % DAY > TARGET
    /\ Len(last.sweeps) >= 2
    /\ last.sweeps[1].day = DayOf(last.started) + 1

\* ------------------------------------------------------------- shutdown
\* both services from 90 seconds before the 20:00 of the last day, with an
\* approved event of two attendees on the day after
InitShutdown ==
    /\ store = SweepDoc(<<>>, [status |-> STATUS_APPROVED, starts |-> <<MaxDays, 18>>,
                                attendees |-> <<2, 3>>])
    /\ clock = (MaxDays - 1) * DAY + TARGET - 90
    /\ session = [u \in Users |-> NoSession]
    /\ tasks = background_tasks
    /\ nextMessageId = 1
    /\ last = NoHistory

NextShutdown ==
    \/ run_daily_notifications(1)
    \/ send_tomorrows_reminders(1)
    \/ send_tomorrows_reminders_step(1)
    \/ run_daily_notifications_retry(1)
    \/ run(2)
    \/ run_tick(2)
    \/ _send_thermometer_message(2)
    \/ main
    \/ \E i \in DOMAIN tasks : CancelledError(i)

\* the event loop resumes a task whose cancellation was requested
SpecShutdown ==
    /\ InitShutdown
    /\ [][NextShutdown]_vars
    /\ WF_vars(\E i \in DOMAIN background_tasks : CancelledError(i))

\* a task cancelled in a sleep does nothing but end: no sweep begins, no
\* message is sent, no time passes for it
CancelledAsleep ==
    \A i \in DOMAIN tasks :
        (tasks[i].cancel /\ tasks[i].pc \in {"sleep", "backoff"}) =>
            \/ tasks'[i] = tasks[i]
            \/ /\ tasks'[i].pc = "cancelled"
               /\ last'.h = tasks[i].h
               /\ last'.out = "cancelled"
               /\ last'.sweeps = last.sweeps
               /\ last'.attempts = last.attempts
               /\ clock' = clock

\* the shutdown of main requests the cancellation of every task
MainCancelsAll ==
    (last'.h = "main" /\ last.h # "main") => \A i \in DOMAIN tasks : tasks'[i].cancel

AllEnded == \A i \in DOMAIN tasks : tasks[i].pc \in Ended

\* C28: a background task cancelled while it sleeps ends at once, without a
\* sweep or a message; the shutdown cancels both tasks, and once a
\* cancellation is requested both tasks eventually have ended
C28_CancelledSleepEnds ==
    /\ [][CancelledAsleep /\ MainCancelsAll]_vars
    /\ ((\E i \in DOMAIN tasks : tasks[i].cancel) ~> AllEnded)

\* both tasks were cancelled in their sleeps and have ended
C28_Witness ==
    /\ \A i \in DOMAIN tasks :
          /\ tasks[i].cancel
          /\ tasks[i].pc = "cancelled"
          /\ tasks[i].wake_at > clock
    /\ last.out = "cancelled"

\* ------------------------------------------- writes and notifications
Flows == {"submit", "approve", "reject", "delete_confirm"}

\* the status the store write of a flow leaves
FlowStatus(h) ==
    IF h = "approve" THEN STATUS_APPROVED
    ELSE IF h = "reject" THEN STATUS_REJECTED
    ELSE STATUS_PENDING

\* a document without the fields the record of the notices writes
Unnoticed(doc) == [doc EXCEPT !.moderation_messages = <<>>, !.updated_at = NoneTime]

\* the step that starts a flow has written the flow's status and has made no
\* notification attempt yet
FlowHead ==
    \A i \in Slots :
        (tasks[i].h = "idle" /\ tasks'[i].h \in Flows) =>
            /\ tasks'[i].event \in DOMAIN store'
            /\ store'[tasks'[i].event].status = FlowStatus(tasks'[i].h)
            /\ tasks'[i].messages = <<>>
            /\ last'.to = NoneId

\* a later step of a flow, whether its notification is delivered or fails,
\* leaves every stored event, as the repository reads it, as it was but for
\* the record of the notices, which only the end of a broadcast to the
\* administrators writes
FlowTail ==
    \A i \in Slots :
        (tasks[i].h \in Flows /\ tasks'[i] # tasks[i]) =>
            /\ DOMAIN store' = DOMAIN store
            /\ \A e \in DOMAIN store :
                  Unnoticed(from_dict(store'[e])) = Unnoticed(from_dict(store[e]))
            /\ store' # store => (tasks[i].pc = "notify_admins" /\ tasks'[i] = Idle)
            /\ last'.to = NoneId => store' = store

C30_FailureNeverPropagates ==
    last.h \in {"approve", "reject"} => last.out # "raised"

\* --------------------------------------- operations on a missing event
\* One approved event (id 1) is stored and every callback names the id 2,
\* which the table does not hold; the callbacks that open a prompt of the
\* edit also name event 1, so that the states of the edit are entered.  The
\* callers are the administrator and the attendee, who manages nothing.
Callers == {1, 3}
Absent == {2}

InitMissing == InitEdit

NextMissing ==
    \/ \E u \in Callers, e \in Absent : cb_event_details(u, e)
    \/ \E u \in Callers, e \in Absent : cb_events_signup(u, e)
    \/ \E u \in Callers, e \in Absent : cb_events_signoff(u, e)
    \/ \E u \in Callers, e \in Absent : cb_events_approve(u, e)
    \/ \E u \in Callers, e \in Absent : cb_events_reject(u, e)
    \/ \E u \in Callers, e \in Absent : cb_events_delete_confirm(u, e)
    \/ \E u \in Callers, e \in Absent : cb_events_edit(u, e)
    \/ \E u \in Callers, e \in GateEvents : cb_events_edit_field(u, "title", e)
    \/ \E u \in Callers, value \in TextInputs : _process_field_input(u, "title", value)
    \/ \E i \in Slots : _process_field_input_write(i)
    \/ \E u \in Callers, e \in GateEvents : cb_set_link(u, e)
    \/ \E u \in Callers, text \in LinkInputs : edit_link(u, text)
    \/ \E i \in Slots : edit_link_write(i)
    \/ \E u \in Callers, e \in GateEvents : cb_edit_tags(u, e)
    \/ \E u \in Callers, e \in GateEvents : cb_edit_tags_done(u, e)

SpecMissing == InitMissing /\ [][NextMissing]_vars

\* the step that led to this state named an event id the table did not hold
NamedMissing ==
    /\ last.h \notin {"init", "edit_title", "edit_link"}
    /\ last.event # NoneId
    /\ last.before = BlankDoc

\* C31 as stated: every operation that names a missing id ends in a
\* not-found outcome
C31_MissingIsNotFound == NamedMissing => last.out = "not_found"

\* C31: an operation that names a missing id ends in a not-found alert, or,
\* when approve or reject is sent by a user who is no administrator, in the
\* refusal that precedes the lookup, or, in a tag commit, in the alert of a
\* failed update; it writes nothing to the store, creates no record and
\* starts no notification
MissingStep ==
    (last'.h \notin {"init", "edit_title", "edit_link"} /\ last'.event \notin DOMAIN store
        /\ last'.event # NoneId /\ last' # last) =>
        /\ store' = store
        /\ tasks' = tasks
        /\ \/ last'.out = "not_found"
           \/ last'.out = "not_updated" /\ last'.h = "edit_tags_done"
           \/ last'.out = "none_selected" /\ last'.h = "edit_tags_done"
           \/ last'.out = "denied" /\ last'.h \in {"approve", "reject"}
                                  /\ last'.user \notin ADMIN_IDS

C31_MissingWritesNothing == [][MissingStep]_vars

\* a tag commit named the missing event and was answered as a failed update
C31_Witness ==
    /\ last.h = "edit_tags_done"
    /\ last.event = 2
    /\ last.out = "not_updated"
    /\ Len(store) = 1

\* ------------------------------------- notices while a broadcast runs
\* notify_admins with the two ends of await bot.send_message apart: the
\* message reaches the administrator's chat (or the call fails), and later
\* the coroutine is resumed with the answer.  An administrator can press a
\* button of the notice in between; with several administrators the sends to
\* the others lie in between as well.
notify_admins_send(i) ==
    LET t == tasks[i]
        admin == Head(t.admins)
    IN  /\ t.pc = "notify_admins"
        /\ \E ok \in BOOLEAN :
              /\ ok => nextMessageId <= MaxMessages
              /\ nextMessageId' = IF ok THEN nextMessageId + 1 ELSE nextMessageId
              /\ tasks' = [tasks EXCEPT ![i] = update_data(t,
                                [pc |-> "send_message",
                                 sent |-> IF ok THEN <<[chat_id |-> admin,
                                                        message_id |-> nextMessageId]>>
                                          ELSE <<>>])]
              /\ last' = Outcome(t.h, t.user, t.event, "sending", IF ok THEN admin ELSE NoneId)
        /\ UNCHANGED <<store, clock, session>>

\* send_message returns or raises in notify_admins; after the last
\* administrator the notices are recorded
notify_admins_sent(i) ==
    LET t == tasks[i]
        rest == Tail(t.admins)
        messages == t.messages \o t.sent
    IN  /\ t.pc = "send_message"
        /\ t.h \in {"submit", "delete_confirm"}
        /\ UNCHANGED <<clock, nextMessageId>>
        /\ IF rest # <<>>
           THEN /\ tasks' = [tasks EXCEPT ![i] =
                               [Idle EXCEPT !.h = t.h, !.pc = "notify_admins", !.user = t.user,
                                            !.event = t.event, !.admins = rest,
                                            !.messages = messages]]
                /\ last' = Outcome(t.h, t.user, t.event, "notifying", NoneId)
                /\ UNCHANGED <<store, session>>
           ELSE /\ store' = IF messages # <<>> /\ t.event \in DOMAIN store
                            THEN [store EXCEPT ![t.event] =
                                    update(store, t.event, recorded_notices(messages), clock)]
                            ELSE store
                /\ tasks' = [tasks EXCEPT ![i] = Idle]
                /\ session' = IF t.h = "delete_confirm"
                              THEN [session EXCEPT ![t.user] = NoSession]
                              ELSE session
                /\ last' = Outcome(t.h, t.user, t.event, "done", NoneId)

\* user 2 is about to submit an event; a handler suspended in a broadcast
\* leaves room for one more suspended handler
InitNotices ==
    /\ store = <<>>
    /\ clock = 1
    /\ session \in {[u \in Users |-> IF u = 2 THEN c ELSE NoSession] : c \in ConfirmSessions(2)}
    /\ tasks = [i \in 1..(MaxTasks + 1) |-> Idle]
    /\ nextMessageId = 1
    /\ last = [h |-> "init", user |-> NoneId, event |-> NoneId, out |-> "", to |-> NoneId, before |-> BlankDoc]

\* the approve and reject buttons exist in the notices only: an administrator
\* presses one once a notice of the event has reached a chat
Noticed(e) ==
    \/ e \in DOMAIN store /\ store[e].moderation_messages # <<>>
    \/ \E i \in DOMAIN tasks :
          /\ tasks[i].event = e
          /\ tasks[i].h \in {"submit", "delete_confirm"}
          /\ \/ tasks[i].messages # <<>>
             \/ tasks[i].pc = "send_message" /\ tasks[i].sent # <<>>

NextNotices ==
    \/ cb_creation_submit(2)
    \/ \E e \in EventIds : cb_events_delete_confirm(2, e)
    \/ \E i \in DOMAIN tasks : notify_admins_send(i)
    \/ \E i \in DOMAIN tasks : notify_admins_sent(i)
    \/ \E u \in ADMIN_IDS, e \in EventIds : Noticed(e) /\ cb_events_approve(u, e)
    \/ \E u \in ADMIN_IDS, e \in EventIds : Noticed(e) /\ cb_events_reject(u, e)
    \/ \E i \in DOMAIN tasks : update_moderation_messages_step(i)
    \/ \E i \in DOMAIN tasks : notify_creator_step(i)

SpecNotices == InitNotices /\ [][NextNotices]_vars

\* C32: when a broadcast has just recorded the notices it delivered, which
\* nothing has refreshed yet, and no approve or reject handler is running,
\* the event is still pending: no completed decision has left a notice of
\* the round with its approve and reject buttons
C32_NoticesInSync ==
    (/\ last.h \in {"submit", "delete_confirm"}
     /\ last.out = "done"
     /\ last.event \in DOMAIN store
     /\ store[last.event].moderation_messages # <<>>
     /\ store[last.event].moderation_messages # last.before.moderation_messages
     /\ \A i \in DOMAIN tasks : tasks[i].h \notin {"approve", "reject"})
        => store[last.event].status = STATUS_PENDING

\* ------------------------------------- specification: date and time edits
\* The date, start and end edits of the event of user 2 by its two managers:
\* administrator 1 edits the start time, creator 2 the date and the end time.
\* Each manager's handler may be suspended in message.delete() while the
\* other's runs.
Managers == {1, 2}
TimeFields(u) == IF u \in ADMIN_IDS THEN {"start_time"} ELSE {"date", "end_time"}

InitTimes ==
    /\ store \in {<<doc>> : doc \in EditDocs}
    /\ clock = MaxClock
    /\ session = [u \in Users |-> NoSession]
    /\ tasks = [i \in 1..(MaxTasks + 1) |-> Idle]
    /\ nextMessageId = 1
    /\ last = [h |-> "init", user |-> NoneId, event |-> NoneId, out |-> "", to |-> NoneId, before |-> BlankDoc]

NextTimes ==
    \/ \E u \in Managers, e \in EventIds :
          \E field_key \in TimeFields(u) : cb_events_edit_field(u, field_key, e)
    \/ \E u \in Managers :
          \E field_key \in TimeFields(u) : \E value \in FieldInputs(field_key) :
              _process_field_input(u, field_key, value)
    \/ \E i \in DOMAIN tasks : _process_field_input_write(i)

SpecTimes == InitTimes /\ [][NextTimes]_vars

\* C33: every stored event that has a start and an end ends strictly after
\* it starts
C33_EndsAfterStart ==
    \A e \in DOMAIN store :
        (store[e].starts_at # NoTime /\ store[e].ends_at # NoTime)
            => Before_dt(store[e].starts_at, store[e].ends_at)

\* C34: a pending event has no attendees, in whatever order signups,
\* signoffs, approvals, rejections and resubmissions are handled
C34_PendingHasNoAttendees ==
    \A e \in DOMAIN store :
        store[e].status = STATUS_PENDING => store[e].attendees = <<>>

\* a signup refused on an event that is pending again, its resubmission's
\* broadcast still running
C34_Witness ==
    /\ last.h = "signup"
    /\ last.out = "unavailable"
    /\ last.event \in DOMAIN store
    /\ store[last.event].status = STATUS_PENDING
    /\ store[last.event].attendees = <<>>
    /\ \E i \in DOMAIN tasks : tasks[i].h = "delete_confirm" /\ tasks[i].event = last.event

\* C35: the moderation fields of every stored event agree with its status:
\* pending has approved_by and approved_at null; approved has approved_by an
\* administrator, approved_at set and moderator_note null; rejected has
\* approved_by an administrator, approved_at set and a non-empty note
C35_ModerationFieldsAgree ==
    \A e \in DOMAIN store :
        LET doc == store[e]
        IN  /\ doc.status = STATUS_PENDING =>
                  doc.approved_by = NoneId /\ doc.approved_at = NoneTime
            /\ doc.status = STATUS_APPROVED =>
                  /\ doc.approved_by \in ADMIN_IDS
                  /\ doc.approved_at # NoneTime
                  /\ doc.moderator_note = NoneText
            /\ doc.status = STATUS_REJECTED =>
                  /\ doc.approved_by \in ADMIN_IDS
                  /\ doc.approved_at # NoneTime
                  /\ doc.moderator_note \notin {NoneText, ""}

\* an approval of a rejected event: the rejection's note is gone
C35_Witness ==
    /\ Did("approve", "stored")
    /\ Was.status = STATUS_REJECTED
    /\ Was.moderator_note = NOTE_REJECTED
    /\ Rec.status = STATUS_APPROVED
    /\ Rec.approved_by \in ADMIN_IDS
    /\ Rec.moderator_note = NoneText

\* the session key each step of the wizard fills
StepField(state_name) ==
    CASE state_name = "date" -> "event_date"
      [] state_name = "description" -> "short_description"
      [] OTHER -> state_name

\* the key holds an accepted value: a text, a date or a time that parsed, a
\* selection of at least one tag
Held(data, key) ==
    IF key \in {"event_date", "start_time", "end_time"} THEN data[key] # 0
    ELSE IF key = "tags" THEN data[key] # <<>>
    ELSE data[key] # ""

\* C36: a wizard session in a step holds an accepted value for the field of
\* every earlier step; past the end-time step the end time is after the start
\* time, so at the confirmation every field is there and a submit never
\* answers that the event could not be assembled
C36_WizardHoldsEarlierFields ==
    /\ \A u \in Creators :
          LET index == _state_index(session[u].state)
              data == session[u].data
          IN  /\ \A j \in 1..(index - 1) : Held(data, StepField(CREATION_SEQUENCE[j]))
              /\ index > _state_index("end_time") => data.end_time > data.start_time
    /\ ~Did("submit", "no_data")

\* a submit at the confirmation assembled the event from the session
C36_Witness ==
    /\ Did("submit", "sent_to_moderation")
    /\ last.event \in DOMAIN store
    /\ Doc.title = "Talk"
    /\ Doc.starts_at = <<10, 18>>
    /\ Doc.ends_at = <<10, 20>>

\* the step is a submit of user u that inserted an event
Inserted(u) ==
    /\ Len(store') = Len(store) + 1
    /\ last'.h = "submit"
    /\ last'.user = u

\* C37: a submit inserts an event and starts its broadcast only from a
\* session in the confirmation step, and leaves that session cleared in the
\* same step: a second submit callback of the session finds no confirmation
\* step, inserts nothing and starts no broadcast
C37_OneInsertPerSession ==
    [][\A u \in Users :
          /\ Inserted(u) => session[u].state = "confirm" /\ session'[u] = NoSession
          /\ (cb_creation_submit(u) /\ ~Inserted(u)) =>
                store' = store /\ tasks' = tasks /\ nextMessageId' = nextMessageId
          /\ session[u].state # "confirm" => ~ENABLED cb_creation_submit(u)]_vars

\* the session is gone while the broadcast of the inserted event still runs:
\* where a second click of the submit button arrives
C37_Witness ==
    /\ Did("submit", "sent_to_moderation")
    /\ Len(store) = 1
    /\ session[last.user] = NoSession
    /\ \E i \in DOMAIN tasks :
          tasks[i].h = "submit" /\ tasks[i].pc = "notify_admins" /\ tasks[i].event = last.event

\* C40: a store failure during a thermometer tick does not end the
\* thermometer task: the task has ended only when it was cancelled
C40_TickFailureKeepsLoop ==
    \A i \in DOMAIN tasks :
        (tasks[i].h = "run" /\ tasks[i].pc \in Ended)
            => tasks[i].cancel /\ tasks[i].pc = "cancelled"

\* ------------------------------------------------ the thermometer sweep
\* The users table and the weekly check-in.  In the specifications of this
\* section store is the users table: one document per tg_id, NoUser where the
\* table has no row.  A document carries the three profile fields that make a
\* registration complete and the thermometer settings (<<>> is no
\* "thermometer" key, <<settings>> a stored dict); the row's timestamps are
\* left out.  Day 0 is a Monday.
WEEK == 7 * DAY
DEFAULT_THERMOMETER_SETTINGS ==
    [enabled |-> TRUE, weekday |-> 6, time |-> "12:00", last_sent_at |-> NoTime]
TIME_CHOICES == {"10:00", "12:00", "15:00", "18:00"}

NoUser ==
    [tg_id |-> NoneId, name |-> "", direction |-> "", magistracy_graduation_year |-> "",
     thermometer |-> <<>>]

is_registration_complete(doc) ==
    doc.name # "" /\ doc.direction # "" /\ doc.magistracy_graduation_year # ""

\* every stored dict was written from a merged one, so each key is there and
\* well-typed: the merge of a stored dict is that dict
merge_thermometer_settings(raw) ==
    IF raw = <<>> THEN DEFAULT_THERMOMETER_SETTINGS
    ELSE [enabled |-> raw[1].enabled,
          weekday |-> IF raw[1].weekday \in 0..6 THEN raw[1].weekday
                      ELSE DEFAULT_THERMOMETER_SETTINGS.weekday,
          time |-> raw[1].time,
          last_sent_at |-> raw[1].last_sent_at]

\* time.fromisoformat of a send time, in seconds; the default on a ValueError
send_time(value) ==
    CASE value = "10:00" -> 36000
      [] value = "12:00" -> 43200
      [] value = "15:00" -> 54000
      [] value = "18:00" -> 64800
      [] OTHER -> 43200

\* now.isoformat() and _parse_datetime: the text of an aware datetime parses
\* back to the same instant; NoTime is None
isoformat(now) == <<"iso", now>>
_parse_datetime(value) == IF value = NoTime THEN NoTime ELSE <<value[2]>>

weekday_of(now) == DayOf(now) % 7

\* the latest occurrence of the configured weekday and time that is not
\* after now
_current_schedule_datetime(settings, now) ==
    LET days_diff == (weekday_of(now) - settings.weekday + 7) % 7
        scheduled_date == DayOf(now) - days_diff
        scheduled_dt == scheduled_date * DAY + send_time(settings.time)
    IN  IF scheduled_dt > now THEN scheduled_dt - WEEK ELSE scheduled_dt

\* mutant: the last delivery is not looked at
is_due_again(doc, now) ==
    LET settings == merge_thermometer_settings(doc.thermometer)
    IN  /\ doc.tg_id # NoneId
        /\ is_registration_complete(doc)
        /\ settings.enabled

\* the tests of _tick's loop body before the send: the document is due
is_due(doc, now) ==
    LET settings == merge_thermometer_settings(doc.thermometer)
        scheduled_dt == _current_schedule_datetime(settings, now)
        last_sent_at == _parse_datetime(settings.last_sent_at)
    IN  /\ doc.tg_id # NoneId
        /\ is_registration_complete(doc)
        /\ settings.enabled
        /\ ~(last_sent_at # NoTime /\ last_sent_at[1] >= scheduled_dt)
        /\ ~(now < scheduled_dt)

\* the documents of the loop from the first due one on
RECURSIVE skip_not_due(_, _)
skip_not_due(docs, now) ==
    IF docs = <<>> THEN <<>>
    ELSE IF is_due(Head(docs), now) THEN docs
    ELSE skip_not_due(Tail(docs), now)

\* UsersRepository.update_one with upsert: $set on the row's document, or on
\* a new one made of the condition
update_one(table, tg_id, set_payload) ==
    LET existing == IF table[tg_id].tg_id # NoneId THEN table[tg_id]
                    ELSE [NoUser EXCEPT !.tg_id = tg_id]
    IN  [table EXCEPT ![tg_id] = Merge(existing, set_payload)]

\* _store_settings of the service and of the handlers: the whole dict
_store_settings(table, tg_id, settings) ==
    update_one(table, tg_id, [tg_id |-> tg_id, thermometer |-> <<settings>>])

\* _load_settings: the merged settings, stored when the row had none
_load_settings(table, user_id) ==
    LET settings == merge_thermometer_settings(table[user_id].thermometer)
    IN  [settings |-> settings,
         table |-> IF table[user_id].thermometer = <<>>
                   THEN _store_settings(table, user_id, settings) ELSE table]

\* find(): the documents of the table's rows, in the order the store returns
\* them, which no ORDER BY fixes
find(table) ==
    LET present == {u \in DOMAIN table : table[u].tg_id # NoneId}
    IN  {docs \in [1..Cardinality(present) -> {table[u] : u \in present}] :
            \A u \in present : \E k \in DOMAIN docs : docs[k] = table[u]}

ThermometerHistory ==
    [h |-> "init", user |-> NoneId, event |-> NoneId, out |-> "", to |-> NoneId,
     before |-> NoUser, sent |-> <<>>, failures |-> 0]

ThermometerOutcome(h, u, out, to) ==
    [last EXCEPT !.h = h, !.user = u, !.out = out, !.to = to,
                 !.before = IF u \in DOMAIN store THEN store[u] ELSE NoUser]

\* the last tick begins within FirstTick + MaxWeeks weeks
MaxWeeks == 1
MaxFailures == 1
FirstTick == 13 * DAY + send_time("12:00") - 2 * TICK
LastTick == FirstTick + MaxWeeks * WEEK + 4 * TICK

\* run from a tick's start to its first send_message: now, the documents
\* find() returns (or the exception that ends run), the loop up to the first
\* due document; with nobody due run awaits asyncio.sleep(60)
_tick_find(i) ==
    LET t == tasks[i]
        now == IF t.pc = "start" THEN clock ELSE t.wake_at
    IN  /\ t.h = "run"
        /\ t.pc \in {"start", "sleep"}
        /\ ~interrupted(t)
        /\ now <= LastTick
        /\ clock' = now
        /\ UNCHANGED <<store, session, nextMessageId>>
        /\ \/ /\ tasks' = [tasks EXCEPT ![i] = [@ EXCEPT !.pc = "failed", !.queue = <<>>]]
              /\ last' = ThermometerOutcome("run", NoneId, "store_failed", NoneId)
           \/ \E users \in find(store) :
                LET queue == skip_not_due(users, now)
                IN  /\ tasks' = [tasks EXCEPT ![i] =
                            IF queue = <<>>
                            THEN [@ EXCEPT !.pc = "sleep", !.wake_at = now + TICK,
                                           !.queue = <<>>, !.now = now]
                            ELSE [@ EXCEPT !.pc = "send_message", !.queue = queue,
                                           !.now = now]]
                    /\ last' = ThermometerOutcome("run", NoneId, "ticked", NoneId)

\* _send_thermometer_message returns: after a delivery the settings read at
\* the tick's start are stored with last_sent_at = now; the loop goes on over
\* the documents read at the tick's start
_tick_deliver(i) ==
    LET t == tasks[i]
        doc == Head(t.queue)
        user_id == doc.tg_id
        settings == [merge_thermometer_settings(doc.thermometer)
                        EXCEPT !.last_sent_at = isoformat(t.now)]
        rest == skip_not_due(Tail(t.queue), t.now)
    IN  /\ t.h = "run"
        /\ t.pc = "send_message"
        /\ ~interrupted(t)
        /\ UNCHANGED <<clock, session, nextMessageId>>
        /\ tasks' = [tasks EXCEPT ![i] =
                        IF rest = <<>>
                        THEN [@ EXCEPT !.pc = "sleep", !.wake_at = clock + TICK, !.queue = <<>>]
                        ELSE [@ EXCEPT !.queue = rest]]
        /\ \E delivered \in BOOLEAN :
             /\ ~delivered => last.failures < MaxFailures
             /\ store' = IF delivered THEN _store_settings(store, user_id, settings) ELSE store
             /\ last' = [ThermometerOutcome("run", user_id,
                                            IF delivered THEN "sent" ELSE "send_failed", user_id)
                            EXCEPT !.sent = IF delivered
                                            THEN Append(@, [to |-> user_id, at |-> t.now])
                                            ELSE @,
                                   !.failures = IF delivered THEN @ ELSE @ + 1]

\* /thermometer: the settings are loaded (and stored when the row had none)
cmd_thermometer(u) ==
    /\ store' = _load_settings(store, u).table
    /\ last' = ThermometerOutcome("cmd_thermometer", u, "shown", NoneId)
    /\ UNCHANGED <<clock, session, tasks, nextMessageId>>

cb_toggle(u) ==
    LET loaded == _load_settings(store, u)
    IN  /\ store' = _store_settings(loaded.table, u,
                                    [loaded.settings EXCEPT !.enabled = ~@])
        /\ last' = ThermometerOutcome("toggle", u, "stored", NoneId)
        /\ UNCHANGED <<clock, session, tasks, nextMessageId>>

cb_select_day(u, weekday) ==
    LET loaded == _load_settings(store, u)
    IN  /\ UNCHANGED <<clock, session, tasks, nextMessageId>>
        /\ IF weekday < 0 \/ weekday > 6
           THEN /\ last' = ThermometerOutcome("select_day", u, "unknown_day", NoneId)
                /\ UNCHANGED store
           ELSE IF loaded.settings.weekday = weekday
           THEN /\ last' = ThermometerOutcome("select_day", u, "already", NoneId)
                /\ store' = loaded.table
           ELSE /\ last' = ThermometerOutcome("select_day", u, "stored", NoneId)
                /\ store' = _store_settings(loaded.table, u,
                                            [loaded.settings EXCEPT !.weekday = weekday])

cb_select_time(u, value) ==
    LET loaded == _load_settings(store, u)
    IN  /\ UNCHANGED <<clock, session, tasks, nextMessageId>>
        /\ IF value \notin TIME_CHOICES
           THEN /\ last' = ThermometerOutcome("select_time", u, "unavailable", NoneId)
                /\ UNCHANGED store
           ELSE IF loaded.settings.time = value
           THEN /\ last' = ThermometerOutcome("select_time", u, "already", NoneId)
                /\ store' = loaded.table
           ELSE /\ last' = ThermometerOutcome("select_time", u, "stored", NoneId)
                /\ store' = _store_settings(loaded.table, u,
                                            [loaded.settings EXCEPT !.time = value])

\* a registered user with the given settings
Registered(u, raw) ==
    [tg_id |-> u, name |-> "Name", direction |-> "Math",
     magistracy_graduation_year |-> "2027", thermometer |-> raw]

ThermometerTask == update_data(ServiceTask("run"), [now |-> 0])

\* ------------------------------- specification: settings during a sweep
\* User 2 is registered and changes the thermometer settings while the sweep
\* runs its first ticks; user 3 is registered and has never opened the
\* settings; user 1 has no row.
SettingsTicks == 2
SettingsTables ==
    {[u \in Users |-> IF u = 2 THEN Registered(2, raw)
                      ELSE IF u = 3 THEN Registered(3, <<>>) ELSE NoUser] :
        raw \in {<<>>, <<DEFAULT_THERMOMETER_SETTINGS>>}}

InitSettings ==
    /\ store \in SettingsTables
    /\ clock = FirstTick
    /\ session = [u \in Users |-> NoSession]
    /\ tasks = <<ThermometerTask>>
    /\ nextMessageId = 1
    /\ last = ThermometerHistory

NextSettings ==
    \/ tasks[1].wake_at <= FirstTick + SettingsTicks * TICK /\ _tick_find(1)
    \/ _tick_deliver(1)
    \/ cmd_thermometer(2)
    \/ cb_toggle(2)
    \/ \E weekday \in {0, 6, 7} : cb_select_day(2, weekday)
    \/ \E value \in {"10:00", "12:00", "25:00"} : cb_select_time(2, value)

SpecSettings == InitSettings /\ [][NextSettings]_vars

\* C38: when the sweep has recorded last_sent_at after a delivery, the
\* enabled, weekday and time values of the user's row are the ones the row
\* held just before that write, which the user stored last
C38_SweepKeepsUserSettings ==
    (last.h = "run" /\ last.out = "sent") =>
        LET stored == merge_thermometer_settings(last.before.thermometer)
            kept == merge_thermometer_settings(store[last.to].thermometer)
        IN  /\ kept.enabled = stored.enabled
            /\ kept.weekday = stored.weekday
            /\ kept.time = stored.time

\* ------------------------------------ specification: the weekly check-in
\* The sweep alone, from two ticks before a Sunday 12:00 to a week later,
\* over users whose rows nobody changes: user 2 registered, with no settings,
\* the default ones, a sent check-in, the Monday 10:00 slot or disabled;
\* user 3 registered or not, with no settings; user 1 without a row.
CheckinSettings ==
    {<<>>,
     <<DEFAULT_THERMOMETER_SETTINGS>>,
     <<[DEFAULT_THERMOMETER_SETTINGS EXCEPT !.last_sent_at = isoformat(FirstTick - DAY)]>>,
     <<[DEFAULT_THERMOMETER_SETTINGS EXCEPT !.weekday = 0, !.time = "10:00"]>>,
     <<[DEFAULT_THERMOMETER_SETTINGS EXCEPT !.enabled = FALSE]>>}

CheckinTables ==
    {[u \in Users |-> IF u = 2 THEN Registered(2, raw)
                      ELSE IF u = 3
                      THEN (IF complete THEN Registered(3, <<>>)
                            ELSE [Registered(3, <<>>) EXCEPT !.direction = ""])
                      ELSE NoUser] :
        raw \in CheckinSettings, complete \in BOOLEAN}

InitCheckins ==
    /\ store \in CheckinTables
    /\ clock = FirstTick
    /\ session = [u \in Users |-> NoSession]
    /\ tasks = <<ThermometerTask>>
    /\ nextMessageId = 1
    /\ last = ThermometerHistory

NextCheckins ==
    \/ _tick_find(1)
    \/ _tick_deliver(1)

SpecCheckins == InitCheckins /\ [][NextCheckins]_vars

\* the slot a check-in delivered at a tick belongs to, and the user's settings
SettingsOf(u) == merge_thermometer_settings(store[u].thermometer)
Slot(u, at) == _current_schedule_datetime(SettingsOf(u), at)

\* C39: with rows nobody changes, two check-ins delivered to a user belong to
\* different weekly slots, the later one sent at a tick not before the next
\* occurrence of the user's weekday and time; and a message is sent, or is
\* about to be sent, only to a user whose registration is complete and whose
\* settings are enabled
C39_OneCheckinPerSlot ==
    /\ \A k, l \in DOMAIN last.sent :
          (k < l /\ last.sent[k].to = last.sent[l].to) =>
              /\ Slot(last.sent[k].to, last.sent[k].at) < Slot(last.sent[l].to, last.sent[l].at)
              /\ last.sent[l].at >= Slot(last.sent[k].to, last.sent[k].at) + WEEK
    /\ last.out \in {"sent", "send_failed"} =>
          is_registration_complete(store[last.to]) /\ SettingsOf(last.to).enabled
    /\ tasks[1].pc = "send_message" =>
          LET doc == Head(tasks[1].queue)
          IN  /\ is_registration_complete(doc)
              /\ merge_thermometer_settings(doc.thermometer).enabled

\* user 2 was sent the check-in of two slots a week apart, and user 3, whose
\* registration is incomplete, none
C39_Witness ==
    /\ \E k, l \in DOMAIN last.sent :
          /\ k < l
          /\ last.sent[k].to = 2
          /\ last.sent[l].to = 2
          /\ last.sent[l].at >= last.sent[k].at + WEEK
    /\ ~is_registration_complete(store[3])
    /\ \A k \in DOMAIN last.sent : last.sent[k].to # 3

====
